---------------------------- MODULE Spec2Model ----------------------------
(***************************************************************************)
(* Real-time combat synchronization engine of the tabletop session         *)
(* backend: the connection registry (app/websocket/manager.py), the        *)
(* per-connection session loop and the combat state machine                *)
(* (app/routes/dice.py, websocket_endpoint).                               *)
(*                                                                         *)
(* Python values are encoded as follows.                                   *)
(*   None / missing optional  : <<>>          (None)                       *)
(*   an optional integer v    : <<v>>         (Some(v))                    *)
(*   dict with string keys    : a record; d.get(k, default) is Get         *)
(*   list                     : a sequence                                 *)
(*   "char_<id>" / "npc_<hex>": <<"char", id>> / <<"npc", n>>              *)
(* Names are strings; their alphabetical order is NameOrd.                 *)
(***************************************************************************)
EXTENDS Integers, Sequences, FiniteSets, TLC

None == <<>>
Some(v) == <<v>>
IsNone(o) == o = <<>>
Val(o) == o[1]

Get(d, k, default) == IF k \in DOMAIN d THEN d[k] ELSE default

Max(a, b) == IF a >= b THEN a ELSE b
Min(a, b) == IF a <= b THEN a ELSE b

(***************************************************************************)
(* The combat state machine: one operator per branch of the                *)
(* initiative_update handler.                                              *)
(***************************************************************************)

\* dice.py:147 the state of a session that has never been touched
EmptyInitiative ==
    [active |-> FALSE, round |-> 1, current_turn_index |-> 0, combatants |-> <<>>]

\* Alphabetical rank of the names the model uses (Python str comparison).
NameOrd(n) ==
    CASE n = "A" -> 1
      [] n = "B" -> 2
      [] n = "Unknown" -> 3
      [] n = "Z" -> 4
      [] OTHER -> 5

\* x["initiative"] or -999 : None and 0 are both falsy
InitKey(c) ==
    IF IsNone(c.initiative) \/ c.initiative = Some(0) THEN -999 ELSE Val(c.initiative)

\* key(a) < key(b) for key = (initiative or -999, dex_mod, name)
KeyLess(a, b) ==
    \/ InitKey(a) < InitKey(b)
    \/ InitKey(a) = InitKey(b) /\ a.dex_mod < b.dex_mod
    \/ InitKey(a) = InitKey(b) /\ a.dex_mod = b.dex_mod /\ NameOrd(a.name) < NameOrd(b.name)

RECURSIVE InsertDesc(_, _)
InsertDesc(sorted, x) ==
    IF sorted = <<>> THEN <<x>>
    ELSE IF KeyLess(Head(sorted), x) THEN <<x>> \o sorted
    ELSE <<Head(sorted)>> \o InsertDesc(Tail(sorted), x)

\* sorted(combatants, key=..., reverse=True): descending, stable
RECURSIVE SortCombatants(_)
SortCombatants(s) ==
    IF s = <<>> THEN <<>>
    ELSE InsertDesc(SortCombatants(SubSeq(s, 1, Len(s) - 1)), s[Len(s)])

FullEconomy(speed) ==
    [action |-> TRUE, bonus_action |-> TRUE, reaction |-> TRUE,
     movement |-> speed, max_movement |-> speed]

\* char.speed or 30
SpeedOr30(speed) == IF speed = 0 THEN 30 ELSE speed

PcCombatant(char) ==
    [id |-> <<"char", char.id>>, name |-> char.name, initiative |-> None,
     dex_mod |-> char.dexterity_modifier, type |-> "pc", character_id |-> char.id,
     roll |-> None, conditions |-> <<>>,
     action_economy |-> FullEconomy(SpeedOr30(char.speed))]

\* dice.py:150-174
StartCombat(init, chars) ==
    [active |-> TRUE, round |-> 1, current_turn_index |-> 0,
     combatants |-> [i \in 1..Len(chars) |-> PcCombatant(chars[i])]]

NpcCombatant(d, fresh) ==
    [id |-> <<"npc", fresh>>, name |-> Get(d, "name", "Unknown"),
     initiative |-> Get(d, "initiative", None),
     dex_mod |-> Get(d, "dex_mod", 0), type |-> "npc",
     max_hp |-> Get(d, "max_hp", 10), current_hp |-> Get(d, "max_hp", 10),
     armor_class |-> Get(d, "armor_class", 10), attacks |-> Get(d, "attacks", <<>>),
     roll |-> None, conditions |-> <<>>,
     action_economy |-> FullEconomy(Get(d, "speed", 30))]

\* dice.py:176-210
AddCombatant(init, d, fresh) ==
    LET appended == Append(init.combatants, NpcCombatant(d, fresh))
    IN  [init EXCEPT !.combatants =
            IF ~IsNone(Get(d, "initiative", None)) THEN SortCombatants(appended)
            ELSE appended]

\* [c for c in combatants if c["id"] != combatant_id]
RECURSIVE WithoutId(_, _)
WithoutId(s, id) ==
    IF s = <<>> THEN <<>>
    ELSE IF Head(s).id = id THEN WithoutId(Tail(s), id)
    ELSE <<Head(s)>> \o WithoutId(Tail(s), id)

\* remove_combatant without the reset of an index that ran past the end
RemoveCombatantKeepIndex(init, d) ==
    [init EXCEPT !.combatants = WithoutId(init.combatants, Get(d, "combatant_id", None))]

\* remove_combatant that always sends the pointer back to the first combatant
RemoveCombatantResetIndex(init, d) ==
    [init EXCEPT !.combatants = WithoutId(init.combatants, Get(d, "combatant_id", None)),
                 !.current_turn_index = 0]

\* dice.py:212-218
RemoveCombatant(init, d) ==
    LET rest == WithoutId(init.combatants, Get(d, "combatant_id", None))
    IN  [init EXCEPT !.combatants = rest,
                     !.current_turn_index =
                        IF init.current_turn_index >= Len(rest) THEN 0
                        ELSE init.current_turn_index]

\* index of the first combatant with the id (the for ... break loops), 0 if none
FirstWithId(s, id) ==
    IF \E i \in 1..Len(s) : s[i].id = id
    THEN CHOOSE i \in 1..Len(s) :
            /\ s[i].id = id
            /\ \A j \in 1..(i - 1) : s[j].id # id
    ELSE 0

\* roll_initiative that stores the raw roll as the initiative
RollInitiativeRaw(init, d, r) ==
    LET s == init.combatants
        k == FirstWithId(s, Get(d, "combatant_id", None))
        rolled == IF k = 0 THEN s
                  ELSE [s EXCEPT ![k].initiative = Some(r), ![k].roll = Some(r)]
    IN  [init EXCEPT !.combatants = SortCombatants(rolled),
                     !.current_turn_index = 0]

\* dice.py:220-237
RollInitiative(init, d, r) ==
    LET s == init.combatants
        k == FirstWithId(s, Get(d, "combatant_id", None))
        rolled == IF k = 0 THEN s
                  ELSE [s EXCEPT ![k].initiative = Some(r + s[k].dex_mod),
                                 ![k].roll = Some(r)]
    IN  [init EXCEPT !.combatants = SortCombatants(rolled),
                     !.current_turn_index = 0]

\* set_initiative that resets the pointer as roll_initiative does
SetInitiativeResetIndex(init, d) ==
    LET s == init.combatants
        k == FirstWithId(s, Get(d, "combatant_id", None))
        set == IF k = 0 THEN s
               ELSE [s EXCEPT ![k].initiative = Get(d, "value", None)]
    IN  [init EXCEPT !.combatants = SortCombatants(set),
                     !.current_turn_index = 0]

\* dice.py:239-252
SetInitiative(init, d) ==
    LET s == init.combatants
        k == FirstWithId(s, Get(d, "combatant_id", None))
        set == IF k = 0 THEN s
               ELSE [s EXCEPT ![k].initiative = Get(d, "value", None)]
    IN  [init EXCEPT !.combatants = SortCombatants(set)]

\* the tick that keeps a condition whose duration has reached 0
RECURSIVE TickConditionsKeepZero(_)
TickConditionsKeepZero(conds) ==
    IF conds = <<>> THEN <<>>
    ELSE LET c == Head(conds)
             rest == TickConditionsKeepZero(Tail(conds))
         IN  IF c.duration_type = "rounds" /\ ~IsNone(c.duration)
             THEN IF Val(c.duration) - 1 >= 0
                  THEN <<[c EXCEPT !.duration = Some(Val(c.duration) - 1)]>> \o rest
                  ELSE rest
             ELSE <<c>> \o rest

\* dice.py:269-281 conditions of the new current combatant after the tick
RECURSIVE TickConditions(_)
TickConditions(conds) ==
    IF conds = <<>> THEN <<>>
    ELSE LET c == Head(conds)
             rest == TickConditions(Tail(conds))
         IN  IF c.duration_type = "rounds" /\ ~IsNone(c.duration)
             THEN IF Val(c.duration) - 1 > 0
                  THEN <<[c EXCEPT !.duration = Some(Val(c.duration) - 1)]>> \o rest
                  ELSE rest
             ELSE <<c>> \o rest

\* next_turn that wraps to the first combatant without counting a new round
NextTurnSameRound(init) ==
    IF init.combatants = <<>> THEN init
    ELSE LET wrap == init.current_turn_index + 1 >= Len(init.combatants)
             idx == IF wrap THEN 0 ELSE init.current_turn_index + 1
             cur == init.combatants[idx + 1]
             eco == [cur.action_economy EXCEPT
                        !.action = TRUE, !.bonus_action = TRUE,
                        !.movement = cur.action_economy.max_movement,
                        !.reaction = TRUE]
         IN  [init EXCEPT !.current_turn_index = idx,
                          !.combatants[idx + 1].action_economy = eco,
                          !.combatants[idx + 1].conditions = TickConditions(cur.conditions)]

\* next_turn that gives every combatant its action economy back
NextTurnResetAll(init) ==
    IF init.combatants = <<>> THEN init
    ELSE LET wrap == init.current_turn_index + 1 >= Len(init.combatants)
             idx == IF wrap THEN 0 ELSE init.current_turn_index + 1
             cur == init.combatants[idx + 1]
         IN  [init EXCEPT !.current_turn_index = idx,
                          !.round = IF wrap THEN @ + 1 ELSE @,
                          !.combatants =
                             [i \in 1..Len(init.combatants) |->
                                [init.combatants[i] EXCEPT
                                   !.action_economy =
                                      [@ EXCEPT !.action = TRUE, !.bonus_action = TRUE,
                                                !.movement =
                                                   init.combatants[i].action_economy.max_movement,
                                                !.reaction = TRUE],
                                   !.conditions =
                                      IF i = idx + 1 THEN TickConditions(@) ELSE @]]]

\* dice.py:254-281
NextTurn(init) ==
    IF init.combatants = <<>> THEN init
    ELSE LET wrap == init.current_turn_index + 1 >= Len(init.combatants)
             idx == IF wrap THEN 0 ELSE init.current_turn_index + 1
             cur == init.combatants[idx + 1]
             eco == [cur.action_economy EXCEPT
                        !.action = TRUE, !.bonus_action = TRUE,
                        !.movement = cur.action_economy.max_movement,
                        !.reaction = TRUE]
         IN  [init EXCEPT !.current_turn_index = idx,
                          !.round = IF wrap THEN @ + 1 ELSE @,
                          !.combatants[idx + 1].action_economy = eco,
                          !.combatants[idx + 1].conditions = TickConditions(cur.conditions)]

\* previous_turn without the floor of 1 under the round
PreviousTurnNoFloor(init) ==
    IF init.combatants = <<>> THEN init
    ELSE IF init.current_turn_index - 1 < 0
         THEN [init EXCEPT !.current_turn_index = Len(init.combatants) - 1,
                           !.round = @ - 1]
         ELSE [init EXCEPT !.current_turn_index = @ - 1]

\* previous_turn that stops at the first combatant instead of wrapping
PreviousTurnNoWrap(init) ==
    IF init.combatants = <<>> THEN init
    ELSE [init EXCEPT !.current_turn_index = Max(0, @ - 1)]

\* dice.py:283-289
PreviousTurn(init) ==
    IF init.combatants = <<>> THEN init
    ELSE IF init.current_turn_index - 1 < 0
         THEN [init EXCEPT !.current_turn_index = Len(init.combatants) - 1,
                           !.round = Max(1, init.round - 1)]
         ELSE [init EXCEPT !.current_turn_index = @ - 1]

\* dice.py:291-293
EndCombat(init) == EmptyInitiative

\* dice.py:295-309 ; rolls[i] is the d20 drawn for the i-th combatant
RollAll(init, rolls) ==
    LET s == init.combatants
        rolled == [i \in 1..Len(s) |->
                    IF IsNone(s[i].initiative)
                    THEN [s[i] EXCEPT !.initiative = Some(rolls[i] + s[i].dex_mod),
                                      !.roll = Some(rolls[i])]
                    ELSE s[i]]
    IN  [init EXCEPT !.combatants = SortCombatants(rolled),
                     !.current_turn_index = 0]

\* the "for combatant in combatants: if id matches: <update>; break" loops:
\* position of the combatant the payload names, 0 if there is none
FirstTarget(init, d) == FirstWithId(init.combatants, Get(d, "combatant_id", None))

\* dice.py:311-317
UseAction(init, d) ==
    LET k == FirstTarget(init, d)
    IN  IF k = 0 THEN init
        ELSE [init EXCEPT !.combatants[k].action_economy.action = FALSE]

\* dice.py:319-325
UseBonusAction(init, d) ==
    LET k == FirstTarget(init, d)
    IN  IF k = 0 THEN init
        ELSE [init EXCEPT !.combatants[k].action_economy.bonus_action = FALSE]

\* dice.py:327-333
UseReaction(init, d) ==
    LET k == FirstTarget(init, d)
    IN  IF k = 0 THEN init
        ELSE [init EXCEPT !.combatants[k].action_economy.reaction = FALSE]

\* a deduction without the floor at 0
UseMovementNoFloor(init, d) ==
    LET k == FirstTarget(init, d)
    IN  IF k = 0 THEN init
        ELSE [init EXCEPT !.combatants[k].action_economy.movement =
                              @ - Get(d, "amount", 5)]

\* dice.py:335-343
UseMovement(init, d) ==
    LET k == FirstTarget(init, d)
    IN  IF k = 0 THEN init
        ELSE [init EXCEPT !.combatants[k].action_economy.movement =
                              Max(0, @ - Get(d, "amount", 5))]

\* dice.py:345-354
ResetActionEconomy(init, d) ==
    LET k == FirstTarget(init, d)
        max == init.combatants[k].action_economy.max_movement
    IN  IF k = 0 THEN init
        ELSE [init EXCEPT !.combatants[k].action_economy.action = TRUE,
                          !.combatants[k].action_economy.bonus_action = TRUE,
                          !.combatants[k].action_economy.reaction = TRUE,
                          !.combatants[k].action_economy.movement = max]

\* first combatant with the id that is an NPC (the condition joins both tests)
FirstNpcWithId(s, id) ==
    IF \E i \in 1..Len(s) : s[i].id = id /\ s[i].type = "npc"
    THEN CHOOSE i \in 1..Len(s) :
            /\ s[i].id = id /\ s[i].type = "npc"
            /\ \A j \in 1..(i - 1) : ~(s[j].id = id /\ s[j].type = "npc")
    ELSE 0

\* update_npc that also caps current_hp at the stored max_hp
UpdateNpcCapped(init, d) ==
    LET k == FirstNpcWithId(init.combatants, Get(d, "combatant_id", None))
        c == init.combatants[k]
        c1 == IF "current_hp" \in DOMAIN d
              THEN [c EXCEPT !.current_hp = Min(c.max_hp, Max(0, d.current_hp))] ELSE c
        c2 == IF "max_hp" \in DOMAIN d THEN [c1 EXCEPT !.max_hp = d.max_hp] ELSE c1
        c3 == IF "armor_class" \in DOMAIN d
              THEN [c2 EXCEPT !.armor_class = d.armor_class] ELSE c2
    IN  IF k = 0 THEN init ELSE [init EXCEPT !.combatants[k] = c3]

\* dice.py:356-367
UpdateNpc(init, d) ==
    LET k == FirstNpcWithId(init.combatants, Get(d, "combatant_id", None))
        c == init.combatants[k]
        c1 == IF "current_hp" \in DOMAIN d
              THEN [c EXCEPT !.current_hp = Max(0, d.current_hp)] ELSE c
        c2 == IF "max_hp" \in DOMAIN d THEN [c1 EXCEPT !.max_hp = d.max_hp] ELSE c1
        c3 == IF "armor_class" \in DOMAIN d
              THEN [c2 EXCEPT !.armor_class = d.armor_class] ELSE c2
    IN  IF k = 0 THEN init ELSE [init EXCEPT !.combatants[k] = c3]

HasCondition(conds, name) == \E i \in 1..Len(conds) : conds[i].name = name

\* add_condition without the test for a condition of the same name
AddConditionAlways(init, d) ==
    LET condition == [name |-> Get(d, "name", "Unknown"),
                      duration |-> Get(d, "duration", None),
                      duration_type |-> Get(d, "duration_type", "indefinite"),
                      source |-> Get(d, "source", "")]
        k == FirstTarget(init, d)
    IN  IF k = 0 THEN init
        ELSE [init EXCEPT !.combatants[k].conditions = Append(@, condition)]

\* dice.py:369-385
AddCondition(init, d) ==
    LET condition == [name |-> Get(d, "name", "Unknown"),
                      duration |-> Get(d, "duration", None),
                      duration_type |-> Get(d, "duration_type", "indefinite"),
                      source |-> Get(d, "source", "")]
        k == FirstTarget(init, d)
    IN  IF k = 0 \/ HasCondition(init.combatants[k].conditions, condition.name)
        THEN init
        ELSE [init EXCEPT !.combatants[k].conditions = Append(@, condition)]

RECURSIVE WithoutCondition(_, _)
WithoutCondition(conds, name) ==
    IF conds = <<>> THEN <<>>
    ELSE IF Head(conds).name = name THEN WithoutCondition(Tail(conds), name)
    ELSE <<Head(conds)>> \o WithoutCondition(Tail(conds), name)

\* dice.py:387-395
RemoveCondition(init, d) ==
    LET k == FirstTarget(init, d)
    IN  IF k = 0 THEN init
        ELSE [init EXCEPT !.combatants[k].conditions = WithoutCondition(@, d.name)]

\* dice.py:397-403
ClearConditions(init, d) ==
    LET k == FirstTarget(init, d)
    IN  IF k = 0 THEN init ELSE [init EXCEPT !.combatants[k].conditions = <<>>]

\* dice.py:150-410 the action names the if/elif chain recognizes
KnownActions ==
    {"start_combat", "add_combatant", "remove_combatant", "roll_initiative",
     "set_initiative", "next_turn", "previous_turn", "end_combat", "roll_all",
     "use_action", "use_bonus_action", "use_reaction", "use_movement",
     "reset_action_economy", "update_npc", "add_condition", "remove_condition",
     "clear_conditions"}

\* dice.py:150-403 ; rnd carries what the branch draws at random: the d20 of
\* roll_initiative, the d20s of roll_all, the fresh id of add_combatant
ApplyAction(init, action, d, chars, rnd) ==
    CASE action = "start_combat" -> StartCombat(init, chars)
      [] action = "add_combatant" -> AddCombatant(init, d, rnd.fresh)
      [] action = "remove_combatant" -> RemoveCombatant(init, d)
      [] action = "roll_initiative" -> RollInitiative(init, d, rnd.roll)
      [] action = "set_initiative" -> SetInitiative(init, d)
      [] action = "next_turn" -> NextTurn(init)
      [] action = "previous_turn" -> PreviousTurn(init)
      [] action = "end_combat" -> EndCombat(init)
      [] action = "roll_all" -> RollAll(init, rnd.rolls)
      [] action = "use_action" -> UseAction(init, d)
      [] action = "use_bonus_action" -> UseBonusAction(init, d)
      [] action = "use_reaction" -> UseReaction(init, d)
      [] action = "use_movement" -> UseMovement(init, d)
      [] action = "reset_action_economy" -> ResetActionEconomy(init, d)
      [] action = "update_npc" -> UpdateNpc(init, d)
      [] action = "add_condition" -> AddCondition(init, d)
      [] action = "remove_condition" -> RemoveCondition(init, d)
      [] action = "clear_conditions" -> ClearConditions(init, d)

(***************************************************************************)
(* The deployment the model explores: client connections to campaign 1    *)
(* and one, w5, to campaign 2.  w1 presents the DM's credential, w2, w3    *)
(* and w5 those of three players, w4 a credential that does not validate.  *)
(***************************************************************************)

Conns == {"w1", "w2", "w3", "w4", "w5"}
Members == {"w1", "w2", "w3"}
NoConn == "none"

\* a credential check that resolves every token to some active user
UserOfAnyToken(w) ==
    CASE w = "w1" -> 1
      [] w = "w2" -> 2
      [] w = "w3" -> 3
      [] w = "w5" -> 5
      [] OTHER -> 4

\* dice.py:34-47 the user the credential of a connection resolves to; 0 when
\* the token does not decode, has no subject or names no active user
UserOf(w) ==
    CASE w = "w1" -> 1
      [] w = "w2" -> 2
      [] w = "w3" -> 3
      [] w = "w5" -> 5
      [] OTHER -> 0

\* models/user.py:16 User.is_dm
IsDm(u) == u = 1

\* dice.py:28 the campaign_id path parameter of each connection
CampaignOf(w) == IF w = "w5" THEN 2 ELSE 1

\* dice.py:152 db.query(Character).all()
AllCharacters ==
    << [id |-> 1, name |-> "A", dexterity_modifier |-> 2, speed |-> 30],
       [id |-> 2, name |-> "B", dexterity_modifier |-> 0, speed |-> 0] >>

\* Client frames the server receives before the exploration of a specification
\* stops, one bound per specification.
MaxRouteMsgs == 1
MaxSyncMsgs == 3
MaxRejectMsgs == 2

VARIABLES
    active_connections,  \* manager.py:14  campaign id -> set of connections
    connection_info,     \* manager.py:16  connection -> campaign_id, user_id
    pc,                  \* where each connection's websocket_endpoint stands
    bc,                  \* the broadcast_to_campaign frame a connection's task is in
    pending,             \* the message of send_personal_message a task is sending
    alive,               \* the transport of a connection still delivers
    data,                \* dice.py:55 the frame a task is handling
    sent,                \* how many client messages the server has received
    store,               \* the campaigns table: the settings column of campaign 1, its only row
    orm,                 \* per connection db Session: the Campaign it holds loaded
    accepted,            \* the combat actions committed so far, in commit order
    iterFault,           \* per task: its iteration of a room set raised, or went on over a changed set
    initiative           \* the CombatState the combat-only specification evolves

vars == <<active_connections, connection_info, pc, bc, pending, alive, data,
          sent, store, orm, accepted, iterFault, initiative>>

NoData == <<>>

\* a client frame {type, data}: the fields of data the handlers read
Req(type, dice_type, whisper_to, action, d) ==
    [type |-> type, dice_type |-> dice_type, whisper_to |-> whisper_to,
     action |-> action, data |-> d]

NoReq == Req("none", 0, "none", "none", NoData)

\* an outgoing message: its type, the connection whose frame produced it, the
\* whisper_to of that frame, the CombatState it carries, the text of an error
Msg(type, w, wt, state, text) ==
    [type |-> type, src |-> w, wt |-> wt, data |-> state, text |-> text]

NoMsg == Msg("none", NoConn, "none", None, "")

\* The frame of a task that is in no broadcast.
NoBc ==
    [cid |-> 0, msg |-> NoMsg, exclude |-> NoConn, used |-> 0, todo |-> {},
     seen |-> {}, cur |-> NoConn, failed |-> {}, reached |-> {}, origin |-> "none"]

Restrict(f, S) == [x \in S |-> f[x]]

(***************************************************************************)
(* ConnectionManager                                                       *)
(***************************************************************************)

\* a registration that replaces the room's set by the new connection alone
RegisteredAlone(ac, ci, w, cid, uid) ==
    [ac |-> [c \in DOMAIN ac \cup {cid} |-> IF c = cid THEN {w} ELSE ac[c]],
     ci |-> [x \in DOMAIN ci \cup {w} |->
                IF x = w THEN [campaign_id |-> cid, user_id |-> uid] ELSE ci[x]]]

\* a registration that adds the connection to the room and records nothing in
\* connection_info
RegisteredWithoutInfo(ac, ci, w, cid, uid) ==
    [ac |-> [c \in DOMAIN ac \cup {cid} |->
                IF c = cid THEN (IF cid \in DOMAIN ac THEN ac[cid] ELSE {}) \cup {w}
                ELSE ac[c]],
     ci |-> ci]

\* manager.py:22-32  the two maps after the registration in connect
Registered(ac, ci, w, cid, uid) ==
    [ac |-> [c \in DOMAIN ac \cup {cid} |->
                IF c = cid THEN (IF cid \in DOMAIN ac THEN ac[cid] ELSE {}) \cup {w}
                ELSE ac[c]],
     ci |-> [x \in DOMAIN ci \cup {w} |->
                IF x = w THEN [campaign_id |-> cid, user_id |-> uid] ELSE ci[x]]]

\* a disconnect that leaves the room entry in place when its set empties
DisconnectedKeepRoom(ac, ci, w) ==
    IF w \notin DOMAIN ci THEN [ac |-> ac, ci |-> ci]
    ELSE LET cid == ci[w].campaign_id
             ac1 == IF cid \notin DOMAIN ac THEN ac
                    ELSE [ac EXCEPT ![cid] = ac[cid] \ {w}]
         IN  [ac |-> ac1, ci |-> Restrict(ci, DOMAIN ci \ {w})]

\* a disconnect that leaves the connection_info entry in place
DisconnectedKeepInfo(ac, ci, w) ==
    IF w \notin DOMAIN ci THEN [ac |-> ac, ci |-> ci]
    ELSE LET cid == ci[w].campaign_id
             left == IF cid \in DOMAIN ac THEN ac[cid] \ {w} ELSE {}
             ac1 == IF cid \notin DOMAIN ac THEN ac
                    ELSE IF left = {} THEN Restrict(ac, DOMAIN ac \ {cid})
                    ELSE [ac EXCEPT ![cid] = left]
         IN  [ac |-> ac1, ci |-> ci]

\* manager.py:47-64  the two maps after disconnect(w)
Disconnected(ac, ci, w) ==
    IF w \notin DOMAIN ci THEN [ac |-> ac, ci |-> ci]
    ELSE LET cid == ci[w].campaign_id
             left == IF cid \in DOMAIN ac THEN ac[cid] \ {w} ELSE {}
             ac1 == IF cid \notin DOMAIN ac THEN ac
                    ELSE IF left = {} THEN Restrict(ac, DOMAIN ac \ {cid})
                    ELSE [ac EXCEPT ![cid] = left]
         IN  [ac |-> ac1, ci |-> Restrict(ci, DOMAIN ci \ {w})]

\* manager.py:90-91  disconnect of every connection a broadcast saw fail
RECURSIVE DisconnectedAll(_, _, _)
DisconnectedAll(ac, ci, ws) ==
    IF ws = {} THEN [ac |-> ac, ci |-> ci]
    ELSE LET w == CHOOSE x \in ws : TRUE
             r == Disconnected(ac, ci, w)
         IN  DisconnectedAll(r.ac, r.ci, ws \ {w})

\* manager.py:101-103
get_campaign_connections(ac, cid) ==
    IF cid \in DOMAIN ac THEN Cardinality(ac[cid]) ELSE 0

\* manager.py:61,79  a set object that `del` removed from the table is empty and
\* is no longer the room's set: an iterator over it can never match its size
\* again (CPython keeps that state sticky as si_used = -1)
Orphaned(frames, ac0, ac1) ==
    [t \in DOMAIN frames |->
        IF frames[t].origin # "none" /\ frames[t].cid \in DOMAIN ac0
           /\ frames[t].cid \notin DOMAIN ac1
        THEN [frames[t] EXCEPT !.used = -1]
        ELSE frames[t]]

(***************************************************************************)
(* broadcast_to_campaign, one atomic step per stretch of code between two  *)
(* awaits.  A task suspended in `await connection.send_text` holds a frame *)
(* with the set iterator of the for statement: the size the set had when   *)
(* the iteration began (used), the members not yet yielded (todo), those   *)
(* yielded or passed (seen), the connection being sent to (cur), the       *)
(* `disconnected` list (failed) and the connections reached so far.        *)
(* origin is the call site: "connect" (manager.py:37), "loop" (a message   *)
(* handler, inside the try), "left" (dice.py:448, inside the except).      *)
(***************************************************************************)

\* dice.py:456-458 / no handler: where a RuntimeError of the for statement ends
Raise(w, ac1, ci1, fr1, it) ==
    LET r == IF it.origin = "loop" THEN Disconnected(ac1, ci1, w)
             ELSE [ac |-> ac1, ci |-> ci1]
    IN  /\ active_connections' = r.ac
        /\ connection_info' = r.ci
        /\ bc' = [Orphaned(fr1, ac1, r.ac) EXCEPT ![w] = NoBc]
        /\ pc' = [pc EXCEPT ![w] = IF it.origin = "loop" THEN "faulted" ELSE "crashed"]
        /\ alive' = [alive EXCEPT ![w] = FALSE]
        /\ iterFault' = [iterFault EXCEPT ![w] = "raised"]
        /\ data' = [data EXCEPT ![w] = NoReq]

\* manager.py:89-91 and the return to the caller
Finish(w, ac1, ci1, fr1, it) ==
    LET r == DisconnectedAll(ac1, ci1, it.failed)
    IN  /\ active_connections' = r.ac
        /\ connection_info' = r.ci
        /\ bc' = [Orphaned(fr1, ac1, r.ac) EXCEPT ![w] = NoBc]
        /\ pc' = [pc EXCEPT ![w] = IF it.origin = "left" THEN "left" ELSE "recv"]
        /\ alive' = IF it.origin = "left" THEN [alive EXCEPT ![w] = FALSE] ELSE alive
        /\ iterFault' = iterFault
        /\ data' = [data EXCEPT ![w] = NoReq]

\* manager.py:79-84  the for statement asks the set iterator for the next
\* connection.  CPython raises RuntimeError when the set's size differs from
\* the size at the start; when the size is the same but members changed, the
\* iteration goes on and a newly added member may or may not still be yielded.
\* req is the frame the task is handling.
IterNext(w, ac1, ci1, fr1, it, req) ==
    IF it.used = -1 \/ it.cid \notin DOMAIN ac1 \/ Cardinality(ac1[it.cid]) # it.used
    THEN Raise(w, ac1, ci1, fr1, it)
    ELSE LET S == ac1[it.cid]
             new == S \ (it.todo \cup it.seen)
         IN  \E X \in SUBSET new :
                LET todo1 == (it.todo \cap S) \cup X
                    seen1 == it.seen \cup (new \ X) \cup ({it.exclude} \cap todo1)
                    cand == todo1 \ {it.exclude}
                    changed == S # (it.todo \cup it.seen)
                IN  IF cand = {}
                    THEN Finish(w, ac1, ci1, fr1, it)
                    ELSE \E e \in cand :
                            /\ active_connections' = ac1
                            /\ connection_info' = ci1
                            /\ bc' = [fr1 EXCEPT ![w] =
                                        [it EXCEPT !.todo = cand \ {e},
                                                   !.seen = seen1 \cup {e},
                                                   !.cur = e]]
                            /\ pc' = [pc EXCEPT ![w] = "bcast"]
                            /\ alive' = alive
                            /\ iterFault' = IF changed
                                            THEN [iterFault EXCEPT ![w] = "mutated"]
                                            ELSE iterFault
                            /\ data' = [data EXCEPT ![w] = req]

\* manager.py:71-79  the call, up to the first await
BroadcastBegin(w, ac1, ci1, fr1, cid, msg, exclude, origin, req) ==
    LET it == [NoBc EXCEPT !.cid = cid, !.msg = msg, !.exclude = exclude,
                           !.origin = origin,
                           !.used = get_campaign_connections(ac1, cid),
                           !.todo = IF cid \in DOMAIN ac1 THEN ac1[cid] ELSE {}]
    IN  IF cid \notin DOMAIN ac1
        THEN Finish(w, ac1, ci1, fr1, it)
        ELSE IterNext(w, ac1, ci1, fr1, it, req)

\* manager.py:83-87  the awaited send_text returns or raises, then the loop goes on
SendStep(w) ==
    /\ pc[w] = "bcast"
    /\ LET it == bc[w]
           it1 == IF alive[it.cur]
                  THEN [it EXCEPT !.reached = @ \cup {it.cur}, !.cur = NoConn]
                  ELSE [it EXCEPT !.failed = @ \cup {it.cur}, !.cur = NoConn]
       IN  IterNext(w, active_connections, connection_info, bc, it1, data[w])
    /\ UNCHANGED <<pending, sent, store, orm, accepted, initiative>>

\* manager.py:93-99  the awaited send of send_personal_message returns or raises;
\* every caller in the loop then continues with receive_json
PersonalStep(w) ==
    /\ pc[w] = "personal"
    /\ LET r == IF alive[w] THEN [ac |-> active_connections, ci |-> connection_info]
                ELSE Disconnected(active_connections, connection_info, w)
       IN  /\ active_connections' = r.ac
           /\ connection_info' = r.ci
           /\ bc' = Orphaned(bc, active_connections, r.ac)
    /\ pending' = [pending EXCEPT ![w] = NoMsg]
    /\ data' = [data EXCEPT ![w] = NoReq]
    /\ pc' = [pc EXCEPT ![w] = "recv"]
    /\ UNCHANGED <<alive, sent, store, orm, accepted, iterFault, initiative>>

\* a caller of send_personal_message, up to the await
PersonalBegin(w, msg, req) ==
    /\ pending' = [pending EXCEPT ![w] = msg]
    /\ pc' = [pc EXCEPT ![w] = "personal"]
    /\ data' = [data EXCEPT ![w] = req]
    /\ UNCHANGED <<active_connections, connection_info, bc, alive, iterFault>>

(***************************************************************************)
(* websocket_endpoint                                                      *)
(***************************************************************************)

\* dice.py:34-50 and manager.py:18-45 : authentication, accept, registration and
\* the start of the user_connected broadcast
Connect(w) ==
    /\ pc[w] = "idle"
    /\ IF UserOf(w) = 0
       THEN /\ pc' = [pc EXCEPT ![w] = "refused"]
            /\ alive' = [alive EXCEPT ![w] = FALSE]
            /\ UNCHANGED <<active_connections, connection_info, bc, iterFault, data>>
       ELSE LET r == Registered(active_connections, connection_info, w,
                                CampaignOf(w), UserOf(w))
            IN  BroadcastBegin(w, r.ac, r.ci, bc, CampaignOf(w),
                               Msg("user_connected", w, "none", None, ""), w,
                               "connect", NoReq)
    /\ UNCHANGED <<pending, sent, store, orm, accepted, initiative>>

\* the client goes away: later sends to it raise, its receive_json raises
\* WebSocketDisconnect
ClientClose(w) ==
    /\ pc[w] \in {"recv", "bcast", "personal"}
    /\ alive[w]
    /\ alive' = [alive EXCEPT ![w] = FALSE]
    /\ UNCHANGED <<active_connections, connection_info, pc, bc, pending, data,
                   sent, store, orm, accepted, iterFault, initiative>>

\* dice.py:445-455
RecvDisconnect(w) ==
    /\ pc[w] = "recv"
    /\ ~alive[w]
    /\ LET r == Disconnected(active_connections, connection_info, w)
       IN  BroadcastBegin(w, r.ac, r.ci, Orphaned(bc, active_connections, r.ac),
                          CampaignOf(w),
                          Msg("user_disconnected", w, "none", None, ""),
                          NoConn, "left", NoReq)
    /\ UNCHANGED <<pending, sent, store, orm, accepted, initiative>>

\* a receive that takes the next frame while the last one is still being handled
ReceivesWhileSending(w) ==
    /\ pc[w] \in {"recv", "bcast", "personal"}
    /\ sent' = sent + 1

\* dice.py:55 receive_json returns a frame the client sent
Receives(w) ==
    /\ pc[w] = "recv"
    /\ sent' = sent + 1

\* a whitelist that also lets a d7 through
ValidDiceWithD7 == {4, 6, 7, 8, 10, 12, 20, 100}

\* dice.py:63 valid_dice
ValidDice == {4, 6, 8, 10, 12, 20, 100}

\* the dice types and the whisper_to values clients send in the model
DiceTypes == {20, 7}
WhisperTo == {"none", "dm", "u2"}

\* dice.py:58-114 ; whispers are the whisper_to values the clients use
RecvDiceRoll(w, whispers) ==
    /\ Receives(w)
    /\ \E dt \in DiceTypes, wt \in whispers :
          LET req == Req("dice_roll", dt, wt, "none", NoData)
          IN  IF dt \notin ValidDice
              THEN PersonalBegin(w, Msg("error", w, "none", None, "Invalid dice type"),
                                 req)
              ELSE /\ BroadcastBegin(w, active_connections, connection_info, bc,
                                     CampaignOf(w),
                                     Msg("dice_roll_result", w, wt, None, ""),
                                     NoConn, "loop", req)
                   /\ pending' = pending
    /\ UNCHANGED <<store, orm, accepted, initiative>>

\* dice.py:116-127
RecvChat(w, whispers) ==
    /\ Receives(w)
    /\ \E wt \in whispers :
          BroadcastBegin(w, active_connections, connection_info, bc, CampaignOf(w),
                         Msg("chat_message", w, wt, None, ""), NoConn, "loop",
                         Req("chat_message", 0, wt, "none", NoData))
    /\ UNCHANGED <<pending, store, orm, accepted, initiative>>

(***************************************************************************)
(* The dice engine: the result a dice_roll frame is answered with.         *)
(***************************************************************************)

\* sum(rolls)
RECURSIVE SumSeq(_)
SumSeq(s) == IF s = <<>> THEN 0 ELSE s[1] + SumSeq(Tail(s))

\* dice.py:20-22 roll_dice: the lists random.randint(1, dice_type) can fill
RollsOf(num_dice, dice_type) == [1..num_dice -> 1..dice_type]

\* dice.py:79-80 / 89 : what the branch a roll takes draws at random
DiceDraws(dice_type, roll_data) ==
    IF /\ Get(roll_data, "advantage", "null") \in {"advantage", "disadvantage"}
       /\ dice_type = 20 /\ Get(roll_data, "num_dice", 1) = 1
    THEN RollsOf(2, 20)
    ELSE RollsOf(Get(roll_data, "num_dice", 1), dice_type)

\* a resolution that uses the higher of the two d20 whatever the mode
DiceResultAlwaysMax(dice_type, roll_data, draws) ==
    LET num_dice == Get(roll_data, "num_dice", 1)
        modifier == Get(roll_data, "modifier", 0)
        advantage == Get(roll_data, "advantage", "null")
    IN  IF advantage \in {"advantage", "disadvantage"} /\ dice_type = 20 /\ num_dice = 1
        THEN LET used == Max(draws[1], draws[2])
             IN  [dice_type |-> dice_type, num_dice |-> num_dice, rolls |-> <<used>>,
                  modifier |-> modifier, total |-> used + modifier,
                  advantage |-> advantage, all_rolls |-> Some(<<draws[1], draws[2]>>)]
        ELSE [dice_type |-> dice_type, num_dice |-> num_dice, rolls |-> draws,
              modifier |-> modifier, total |-> SumSeq(draws) + modifier,
              advantage |-> advantage, all_rolls |-> None]

\* dice.py:72-111 the data of the dice_roll_result; the absent advantage (None)
\* is the string "null"
DiceResult(dice_type, roll_data, draws) ==
    LET num_dice == Get(roll_data, "num_dice", 1)
        modifier == Get(roll_data, "modifier", 0)
        advantage == Get(roll_data, "advantage", "null")
    IN  IF advantage \in {"advantage", "disadvantage"} /\ dice_type = 20 /\ num_dice = 1
        THEN LET roll1 == draws[1]
                 roll2 == draws[2]
                 used == IF advantage = "advantage" THEN Max(roll1, roll2)
                         ELSE Min(roll1, roll2)
             IN  [dice_type |-> dice_type, num_dice |-> num_dice, rolls |-> <<used>>,
                  modifier |-> modifier, total |-> used + modifier,
                  advantage |-> advantage, all_rolls |-> Some(<<roll1, roll2>>)]
        ELSE [dice_type |-> dice_type, num_dice |-> num_dice, rolls |-> draws,
              modifier |-> modifier, total |-> SumSeq(draws) + modifier,
              advantage |-> advantage, all_rolls |-> None]

\* the dice_roll frames of the dice specification
MaxNumDice == 2
RollSides == {20, 4}
RollData ==
    {NoData} \cup
    [num_dice : 1..MaxNumDice, modifier : {0 - 25, 5},
     advantage : {"null", "advantage", "disadvantage"}]

\* dice.py:58-114 a dice_roll frame of a valid dice type: the roll and the start
\* of the broadcast of its result
RecvDiceRollValued(w) ==
    /\ Receives(w)
    /\ \E dt \in RollSides, rd \in RollData :
          \E draws \in DiceDraws(dt, rd) :
              BroadcastBegin(w, active_connections, connection_info, bc,
                             CampaignOf(w),
                             Msg("dice_roll_result", w, "none",
                                 Some(DiceResult(dt, rd, draws)), ""),
                             NoConn, "loop", Req("dice_roll", dt, "none", "none", rd))
    /\ UNCHANGED <<pending, store, orm, accepted, initiative>>

\* dice.py:421-436
RecvMapUpdate(w) ==
    /\ Receives(w)
    /\ LET req == Req("map_update", 0, "none", "none", NoData)
       IN  IF ~IsDm(UserOf(w))
           THEN PersonalBegin(w, Msg("error", w, "none", None,
                                     "Only the DM can update the map"), req)
           ELSE /\ BroadcastBegin(w, active_connections, connection_info, bc,
                                  CampaignOf(w), Msg("map_update", w, "none", None, ""),
                                  w, "loop", req)
                /\ pending' = pending
    /\ UNCHANGED <<store, orm, accepted, initiative>>

\* dice.py:438-443
RecvUnknownType(w) ==
    /\ Receives(w)
    /\ PersonalBegin(w, Msg("error", w, "none", None, "Unknown message type"),
                     Req("teleport", 0, "none", "none", NoData))
    /\ UNCHANGED <<store, orm, accepted, initiative>>

\* dice.py:56,131-133,456-458 : a frame whose handling raises (data is not an
\* object, "data" is null, ...) ends the loop in `except Exception`
RecvMalformed(w) ==
    /\ Receives(w)
    /\ LET r == Disconnected(active_connections, connection_info, w)
       IN  /\ active_connections' = r.ac
           /\ connection_info' = r.ci
           /\ bc' = Orphaned(bc, active_connections, r.ac)
    /\ pc' = [pc EXCEPT ![w] = "faulted"]
    /\ alive' = [alive EXCEPT ![w] = FALSE]
    /\ UNCHANGED <<pending, data, store, orm, accepted, iterFault, initiative>>

\* a save that stores a dict holding the one key alone
WithOnlyKey(settings, k, v) == [x \in {k} |-> v]

\* settings["initiative"] = initiative : the dict with that one key replaced
WithKey(settings, k, v) ==
    [x \in DOMAIN settings \cup {k} |-> IF x = k THEN v ELSE settings[x]]

\* what a branch draws at random: uuid4 for add_combatant (an id no combatant of
\* the list has), random.randint(1, 20) for the rolls
NpcPool == 1..3
D20 == 1..20
UsedNpc(init) ==
    {n \in NpcPool : \E i \in 1..Len(init.combatants) : init.combatants[i].id = <<"npc", n>>}
Draws(init, action) ==
    CASE action = "add_combatant" -> {[fresh |-> n] : n \in NpcPool \ UsedNpc(init)}
      [] action = "roll_initiative" -> {[roll |-> r] : r \in D20}
      [] action = "roll_all" -> {[rolls |-> f] : f \in [1..Len(init.combatants) -> D20]}
      [] OTHER -> {[none |-> 0]}

\* the initiative_update requests clients send in the router specifications
SyncRequests ==
    { Req("initiative_update", 0, "none", "start_combat", NoData),
      Req("initiative_update", 0, "none", "add_combatant", [name |-> "Z"]),
      Req("initiative_update", 0, "none", "next_turn", NoData),
      Req("initiative_update", 0, "none", "summon", NoData),
      Req("initiative_update", 0, "none", "add_pc", [character_id |-> 1]) }

\* a campaign query without the filter on the id: the first row of the table
CampaignRowAnyId(cid) == store

\* dice.py:135 db.query(Campaign).filter(Campaign.id == campaign_id).first():
\* the table holds campaign 1 alone
CampaignRow(cid) == IF cid = 1 THEN store ELSE None

\* dice.py:129-148,405-419 : load the campaign through this connection's db
\* Session, run the action, commit, start the broadcast of the new state.
\* db.query(Campaign)...first() returns the instance the Session already holds
\* (still referenced by the local `campaign`) without refreshing its loaded
\* attributes; commit expires it.
RecvInitiative(w, requests) ==
    /\ Receives(w)
    /\ \E req \in requests :
          LET row == IF ~IsNone(orm[w]) THEN orm[w] ELSE CampaignRow(CampaignOf(w))
          IN  IF IsNone(row)
              THEN /\ PersonalBegin(w, Msg("error", w, "none", None, "Campaign not found"),
                                    req)
                   /\ UNCHANGED <<store, orm, accepted>>
              ELSE LET settings == Val(row)
                       init == Get(settings, "initiative", EmptyInitiative)
                   IN  IF req.action \notin KnownActions
                       THEN /\ PersonalBegin(w, Msg("error", w, "none", None,
                                                    "Unknown initiative action"), req)
                            /\ orm' = [orm EXCEPT ![w] = row]
                            /\ UNCHANGED <<store, accepted>>
                       ELSE \E rnd \in Draws(init, req.action) :
                              LET new == ApplyAction(init, req.action, req.data,
                                                     AllCharacters, rnd)
                              IN  /\ store' = Some(WithKey(settings, "initiative", new))
                                  /\ orm' = [orm EXCEPT ![w] = None]
                                  /\ accepted' = Append(accepted,
                                                [action |-> req.action, data |-> req.data,
                                                 rnd |-> rnd])
                                  /\ BroadcastBegin(w, active_connections, connection_info,
                                                    bc, CampaignOf(w),
                                                    Msg("initiative_state", w, "none",
                                                        Some(new), ""),
                                                    NoConn, "loop", req)
                                  /\ pending' = pending
    /\ UNCHANGED initiative

(***************************************************************************)
(* Specifications                                                          *)
(***************************************************************************)

\* Campaign.settings of campaign 1 before any combat: one unrelated key
InitialSettings == [k \in {"theme"} |-> "dark"]

InitRegistry ==
    /\ active_connections = <<>>
    /\ connection_info = <<>>
    /\ pc = [w \in Conns |-> "idle"]
    /\ bc = [w \in Conns |-> NoBc]
    /\ pending = [w \in Conns |-> NoMsg]
    /\ alive = [w \in Conns |-> TRUE]
    /\ data = [w \in Conns |-> NoReq]
    /\ sent = 0
    /\ orm = [w \in Conns |-> None]
    /\ accepted = <<>>
    /\ iterFault = [w \in Conns |-> "none"]
    /\ initiative = EmptyInitiative

InitRoute ==
    /\ InitRegistry
    /\ store = Some(InitialSettings)

InitSync ==
    /\ InitRegistry
    /\ store \in {None, Some(InitialSettings)}

Lifecycle(w) ==
    \/ Connect(w)
    \/ ClientClose(w)
    \/ RecvDisconnect(w)
    \/ SendStep(w)
    \/ PersonalStep(w)

NextRoute ==
    \E w \in Members :
        \/ Lifecycle(w)
        \/ sent < MaxRouteMsgs /\ RecvDiceRoll(w, WhisperTo)
        \/ sent < MaxRouteMsgs /\ RecvChat(w, WhisperTo)
        \/ sent < MaxRouteMsgs /\ RecvMapUpdate(w)
        \/ sent < MaxRouteMsgs /\ RecvMalformed(w)

NextSync ==
    \E w \in {"w1", "w2"} :
        \/ Lifecycle(w)
        \/ sent < MaxSyncMsgs /\ RecvInitiative(w, SyncRequests)

NextReject ==
    \E w \in {"w1", "w2"} :
        \/ Lifecycle(w)
        \/ sent < MaxRejectMsgs /\ RecvDiceRoll(w, {"none"})
        \/ sent < MaxRejectMsgs /\ RecvUnknownType(w)
        \/ sent < MaxRejectMsgs /\ RecvInitiative(w, SyncRequests)

\* message routing: dice rolls, chat, map updates, faulty frames
SpecRoute == InitRoute /\ [][NextRoute]_vars

\* combat state synchronization: initiative_update
SpecSync == InitSync /\ [][NextSync]_vars

\* rejected frames among accepted ones
SpecReject == InitSync /\ [][NextReject]_vars

\* rejected frames and a connection attempt with a credential that fails
NextAuth == NextReject \/ Connect("w4")

SpecAuth == InitSync /\ [][NextAuth]_vars

\* the dice engine behind one connection
MaxDiceMsgs == 1

NextDice ==
    \/ Connect("w1")
    \/ SendStep("w1")
    \/ sent < MaxDiceMsgs /\ RecvDiceRollValued("w1")

SpecDice == InitRoute /\ [][NextDice]_vars

\* the registry alone: connections come and go, no client frame is received
NextRegistry ==
    \E w \in Members :
        \/ Connect(w)
        \/ ClientClose(w)
        \/ RecvDisconnect(w)
        \/ SendStep(w)

SpecRegistry == InitRoute /\ [][NextRegistry]_vars

\* the registry with the admissions in a fixed order: connections differ only
\* by name here, so w1 is the first to be admitted, w2 the second, w3 the third
Earlier(x, w) == <<x, w>> \in {<<"w1", "w2">>, <<"w1", "w3">>, <<"w2", "w3">>}

ConnectInOrder(w) ==
    /\ \A x \in Members : Earlier(x, w) => pc[x] # "idle"
    /\ Connect(w)

NextAdmit ==
    \E w \in Members :
        \/ ConnectInOrder(w)
        \/ ClientClose(w)
        \/ RecvDisconnect(w)
        \/ SendStep(w)

SpecAdmit == InitRoute /\ [][NextAdmit]_vars

\* two rooms: w1 and w2 in the room of campaign 1, w5 in that of campaign 2
MaxRoomMsgs == 2
RoomRequests ==
    { Req("initiative_update", 0, "none", "start_combat", NoData),
      Req("initiative_update", 0, "none", "summon", NoData) }

NextRooms ==
    \E w \in {"w1", "w2", "w5"} :
        \/ Lifecycle(w)
        \/ sent < MaxRoomMsgs /\ RecvDiceRoll(w, {"none"})
        \/ sent < MaxRoomMsgs /\ RecvInitiative(w, RoomRequests)

SpecRooms == InitRoute /\ [][NextRooms]_vars

(***************************************************************************)
(* The combat branches alone: every initiative_update action applied to   *)
(* the CombatState, starting from the state the handler assumes when the  *)
(* settings hold no "initiative" key.                                      *)
(***************************************************************************)

MaxCombatants == 2
MaxRound == 3

\* the payloads clients send in the combat specification
MissingId == <<"npc", 0>>
IdsOf(init) == {init.combatants[i].id : i \in 1..Len(init.combatants)}
TargetIds(init) == IdsOf(init) \cup {MissingId}
DetailIds == {<<"char", 1>>, MissingId}
NpcIds == {<<"npc", 1>>, <<"char", 1>>}
RollSamples == {10}
SetValues == {Some(12)}
NpcPayloads == {[name |-> "Z"], [name |-> "Z", initiative |-> Some(10)]}
ConditionPayloads == {[name |-> "prone", duration |-> Some(2), duration_type |-> "rounds"]}

\* uuid4 of add_combatant: ids are opaque, the least unused one stands for all
FreshNpc(init) ==
    {n \in NpcPool \ UsedNpc(init) : \A m \in NpcPool \ UsedNpc(init) : n <= m}

\* one branch of dice.py:150-403 applied to the loaded state
Apply(action, d, rnd) ==
    /\ initiative' = ApplyAction(initiative, action, d, AllCharacters, rnd)
    /\ UNCHANGED <<active_connections, connection_info, pc, bc, pending, alive,
                   data, sent, store, orm, accepted, iterFault>>

NoDraw == [none |-> 0]
Target(id) == [combatant_id |-> id]

DoStartCombat == Apply("start_combat", NoData, NoDraw)
DoAddCombatant ==
    /\ Len(initiative.combatants) < MaxCombatants
    /\ \E d \in NpcPayloads, n \in FreshNpc(initiative) :
          Apply("add_combatant", d, [fresh |-> n])
DoRemoveCombatant ==
    \E id \in TargetIds(initiative) : Apply("remove_combatant", Target(id), NoDraw)
DoRollInitiative ==
    \E id \in TargetIds(initiative), r \in RollSamples :
        Apply("roll_initiative", Target(id), [roll |-> r])
DoSetInitiative ==
    \E id \in TargetIds(initiative), v \in SetValues :
        Apply("set_initiative", [combatant_id |-> id, value |-> v], NoDraw)
DoNextTurn ==
    /\ initiative.round < MaxRound
    /\ Apply("next_turn", NoData, NoDraw)
DoPreviousTurn == Apply("previous_turn", NoData, NoDraw)
DoEndCombat == Apply("end_combat", NoData, NoDraw)
DoRollAll ==
    \E f \in [1..Len(initiative.combatants) -> RollSamples] :
        Apply("roll_all", NoData, [rolls |-> f])
DoUseAction == \E id \in DetailIds : Apply("use_action", Target(id), NoDraw)
DoUseBonusAction == \E id \in DetailIds : Apply("use_bonus_action", Target(id), NoDraw)
DoUseReaction == \E id \in DetailIds : Apply("use_reaction", Target(id), NoDraw)
DoUseMovement ==
    \E id \in DetailIds :
        Apply("use_movement", [combatant_id |-> id, amount |-> 30], NoDraw)
DoResetActionEconomy ==
    \E id \in DetailIds : Apply("reset_action_economy", Target(id), NoDraw)
DoUpdateNpc ==
    \E id \in NpcIds :
        Apply("update_npc", [combatant_id |-> id, current_hp |-> 0 - 3], NoDraw)
DoAddCondition ==
    \E id \in DetailIds, c \in ConditionPayloads :
        Apply("add_condition", [x \in DOMAIN c \cup {"combatant_id"} |->
                                   IF x = "combatant_id" THEN id ELSE c[x]], NoDraw)
DoRemoveCondition ==
    \E id \in DetailIds :
        Apply("remove_condition", [combatant_id |-> id, name |-> "prone"], NoDraw)
DoClearConditions ==
    \E id \in DetailIds : Apply("clear_conditions", Target(id), NoDraw)

NextCombat ==
    \/ DoStartCombat \/ DoAddCombatant \/ DoRemoveCombatant
    \/ DoRollInitiative \/ DoSetInitiative
    \/ DoNextTurn \/ DoPreviousTurn \/ DoEndCombat \/ DoRollAll
    \/ DoUseAction \/ DoUseBonusAction \/ DoUseReaction \/ DoUseMovement
    \/ DoResetActionEconomy \/ DoUpdateNpc
    \/ DoAddCondition \/ DoRemoveCondition \/ DoClearConditions

SpecCombat == InitRoute /\ [][NextCombat]_vars

(***************************************************************************)
(* The action economy: speeds and movement amounts of either sign.         *)
(***************************************************************************)

MaxMovementMsgs == 3

\* the payloads clients send in the action economy specification
SpeedPayloads == {[name |-> "Z"], [name |-> "Z", speed |-> 0 - 5]}
MovementAmounts == {10, 0 - 10, 40}
CurrentIds(init) ==
    IF init.combatants = <<>> THEN {MissingId}
    ELSE {init.combatants[init.current_turn_index + 1].id, MissingId}

\* one branch of dice.py:150-403 applied to the loaded state, counting the
\* use_movement requests in `sent`
ApplyCounted(action, d, rnd) ==
    /\ initiative' = ApplyAction(initiative, action, d, AllCharacters, rnd)
    /\ sent' = IF action = "use_movement" THEN sent + 1 ELSE sent
    /\ UNCHANGED <<active_connections, connection_info, pc, bc, pending, alive,
                   data, store, orm, accepted, iterFault>>

EcoStartCombat == ApplyCounted("start_combat", NoData, NoDraw)
EcoAddCombatant ==
    /\ Len(initiative.combatants) < MaxCombatants
    /\ \E d \in SpeedPayloads, n \in FreshNpc(initiative) :
          ApplyCounted("add_combatant", d, [fresh |-> n])
EcoNextTurn ==
    /\ initiative.round < MaxRound
    /\ ApplyCounted("next_turn", NoData, NoDraw)
EcoEndCombat == ApplyCounted("end_combat", NoData, NoDraw)
EcoUseAction ==
    \E id \in CurrentIds(initiative) : ApplyCounted("use_action", Target(id), NoDraw)
EcoUseBonusAction ==
    \E id \in CurrentIds(initiative) : ApplyCounted("use_bonus_action", Target(id), NoDraw)
EcoUseReaction ==
    \E id \in CurrentIds(initiative) : ApplyCounted("use_reaction", Target(id), NoDraw)
EcoUseMovement ==
    /\ sent < MaxMovementMsgs
    /\ \E id \in TargetIds(initiative), amount \in MovementAmounts :
          ApplyCounted("use_movement", [combatant_id |-> id, amount |-> amount], NoDraw)
EcoUseMovementDefault ==
    /\ sent < MaxMovementMsgs
    /\ \E id \in TargetIds(initiative) : ApplyCounted("use_movement", Target(id), NoDraw)
EcoResetActionEconomy ==
    \E id \in TargetIds(initiative) :
        ApplyCounted("reset_action_economy", Target(id), NoDraw)

NextEconomy ==
    \/ EcoStartCombat \/ EcoAddCombatant \/ EcoNextTurn \/ EcoEndCombat
    \/ EcoUseAction \/ EcoUseBonusAction \/ EcoUseReaction
    \/ EcoUseMovement \/ EcoUseMovementDefault \/ EcoResetActionEconomy

SpecEconomy == InitRoute /\ [][NextEconomy]_vars

\* movement alone: combatants are seeded and spend movement
NextMovement ==
    \/ EcoStartCombat \/ EcoAddCombatant
    \/ EcoUseMovement \/ EcoUseMovementDefault

SpecMovement == InitRoute /\ [][NextMovement]_vars

(***************************************************************************)
(* Conditions: added, removed, cleared and ticked down by next_turn.       *)
(***************************************************************************)

\* the payloads clients send in the conditions specification
TimedConditions ==
    {[name |-> "prone", duration |-> Some(2), duration_type |-> "rounds",
      source |-> "shove"],
     [name |-> "blessed", duration |-> Some(1), duration_type |-> "rounds"]}
UntimedConditions == {[name |-> "prone"], [name |-> "blessed", source |-> "cleric"]}
ConditionNames == {"prone", "blessed"}
OnTarget(id, d) ==
    [x \in DOMAIN d \cup {"combatant_id"} |-> IF x = "combatant_id" THEN id ELSE d[x]]

CondStartCombat == Apply("start_combat", NoData, NoDraw)
CondAddCombatant ==
    /\ Len(initiative.combatants) < MaxCombatants
    /\ \E n \in FreshNpc(initiative) :
          Apply("add_combatant", [name |-> "Z"], [fresh |-> n])
CondNextTurn ==
    /\ initiative.round < MaxRound
    /\ Apply("next_turn", NoData, NoDraw)
CondAddTimed ==
    \E id \in TargetIds(initiative), c \in TimedConditions :
        Apply("add_condition", OnTarget(id, c), NoDraw)
CondAddUntimed ==
    \E id \in TargetIds(initiative), c \in UntimedConditions :
        Apply("add_condition", OnTarget(id, c), NoDraw)
CondRemoveCondition ==
    \E id \in TargetIds(initiative), n \in ConditionNames :
        Apply("remove_condition", [combatant_id |-> id, name |-> n], NoDraw)
CondClearConditions ==
    \E id \in TargetIds(initiative) : Apply("clear_conditions", Target(id), NoDraw)

NextConditions ==
    \/ CondStartCombat \/ CondAddCombatant \/ CondNextTurn
    \/ CondAddTimed \/ CondAddUntimed
    \/ CondRemoveCondition \/ CondClearConditions

SpecConditions == InitRoute /\ [][NextConditions]_vars

(***************************************************************************)
(* The re-sort: the four branches that sort the combatants, on NPCs of     *)
(* several names, dexterity modifiers and initiatives.  `accepted` holds   *)
(* the request that produced the state.                                    *)
(***************************************************************************)

MaxSortCombatants == 3

\* the payloads clients send in the re-sort specification
SortPayloads ==
    {[name |-> "B", dex_mod |-> 2, initiative |-> Some(15)],
     [name |-> "A", dex_mod |-> 2, initiative |-> Some(15)],
     [name |-> "A", dex_mod |-> 4],
     [name |-> "Z", dex_mod |-> 5]}
SortValues == {Some(15), Some(0)}
SortRolls == {13}

SortApply(action, d, rnd) ==
    /\ initiative' = ApplyAction(initiative, action, d, AllCharacters, rnd)
    /\ accepted' = <<[action |-> action, data |-> d, rnd |-> rnd]>>
    /\ UNCHANGED <<active_connections, connection_info, pc, bc, pending, alive,
                   data, sent, store, orm, iterFault>>

SortAddCombatant ==
    /\ Len(initiative.combatants) < MaxSortCombatants
    /\ \E d \in SortPayloads, n \in FreshNpc(initiative) :
          SortApply("add_combatant", d, [fresh |-> n])
SortRemoveCombatant ==
    \E id \in IdsOf(initiative) : SortApply("remove_combatant", Target(id), NoDraw)
SortRollInitiative ==
    \E id \in TargetIds(initiative), r \in SortRolls :
        SortApply("roll_initiative", Target(id), [roll |-> r])
SortSetInitiative ==
    \E id \in TargetIds(initiative), v \in SortValues :
        SortApply("set_initiative", [combatant_id |-> id, value |-> v], NoDraw)
SortRollAll ==
    \E f \in [1..Len(initiative.combatants) -> SortRolls] :
        SortApply("roll_all", NoData, [rolls |-> f])

NextSort ==
    \/ SortAddCombatant \/ SortRemoveCombatant
    \/ SortRollInitiative \/ SortSetInitiative \/ SortRollAll

SpecSort == InitRoute /\ [][NextSort]_vars

(***************************************************************************)
(* The turn pointer: the branches that change the membership, the order    *)
(* or the pointer, on lists long enough for the pointer to stand past the  *)
(* first combatant after a removal.                                        *)
(***************************************************************************)

MaxPointerCombatants == 3

\* add_combatant up to the length of this specification
PtrAddCombatant ==
    /\ Len(initiative.combatants) < MaxPointerCombatants
    /\ \E d \in NpcPayloads, n \in FreshNpc(initiative) :
          Apply("add_combatant", d, [fresh |-> n])

NextPointer ==
    \/ DoStartCombat \/ PtrAddCombatant \/ DoRemoveCombatant
    \/ DoRollInitiative \/ DoSetInitiative \/ DoRollAll
    \/ DoNextTurn \/ DoPreviousTurn

SpecPointer == InitRoute /\ [][NextPointer]_vars

(***************************************************************************)
(* Claims                                                                  *)
(***************************************************************************)

DmConns == {x \in Conns : UserOf(x) = 1}
ConnsOfUser(u) == {x \in Conns : UserOf(x) = u}
Routed(f) == f.msg.type \in {"dice_roll_result", "chat_message"}

\* C1: a dice_roll or chat_message with whisper_to = "dm" sent by a non-DM is
\* delivered to the connections of DM principals and to the sender, and to no
\* other connection of the room.
C1_WhisperToDmOnlyDmAndSender ==
    \A w \in Conns :
        (Routed(bc[w]) /\ bc[w].msg.wt = "dm" /\ bc[w].msg.src \notin DmConns)
            => bc[w].reached \subseteq DmConns \cup {bc[w].msg.src}

\* C2: a dice_roll or chat_message with whisper_to = <userId> is delivered to
\* the connections of that user and to the sender, and to no other connection.
C2_WhisperToUserOnlyUserAndSender ==
    \A w \in Conns :
        (Routed(bc[w]) /\ bc[w].msg.wt = "u2")
            => bc[w].reached \subseteq ConnsOfUser(2) \cup {bc[w].msg.src}

\* the result of applying the logged actions one at a time, in the order given
RECURSIVE Replay(_, _, _)
Replay(state, log, order) ==
    IF order = <<>> THEN state
    ELSE LET e == log[Head(order)]
         IN  Replay(ApplyAction(state, e.action, e.data, AllCharacters, e.rnd),
                    log, Tail(order))

Orders(n) == {f \in [1..n -> 1..n] : \A i, j \in 1..n : f[i] = f[j] => i = j}

SerialOutcomes(log) ==
    {Replay(EmptyInitiative, log, f) : f \in Orders(Len(log))}

PersistedInitiative ==
    IF IsNone(store) THEN EmptyInitiative
    ELSE Get(Val(store), "initiative", EmptyInitiative)

\* C3: no lost updates: the persisted CombatState is the result of applying
\* all accepted actions one at a time in some serial order.
C3_NoLostUpdate == PersistedInitiative \in SerialOutcomes(accepted)

\* C4: a broadcast that is suspended at a delivery while other loops connect or
\* disconnect never raises and never goes on iterating a set that was changed.
C4_BroadcastSafeUnderMutation == \A w \in Conns : iterFault[w] = "none"

InRoom(ac, cid) == IF cid \in DOMAIN ac THEN ac[cid] ELSE {}
AllRooms(ac) == UNION {ac[c] : c \in DOMAIN ac}
EndsFrame(w) == bc[w].origin # "none" /\ bc'[w] = NoBc
LastTarget(w) == {bc[w].cur} \ {NoConn}
ReachedAtEnd(w) == bc[w].reached \cup {x \in LastTarget(w) : alive[x]}
FailedAtEnd(w) == bc[w].failed \cup {x \in LastTarget(w) : ~alive[x]}

\* C5: an accepted initiative_update is persisted first, and the state then
\* broadcast is that persisted state, sent to every connection in the room.
C5_PersistThenBroadcastToAll ==
    [][\A w \in Conns :
        /\ (bc[w].msg.type # "initiative_state" /\ bc'[w].msg.type = "initiative_state")
              => /\ ~IsNone(store')
                 /\ Get(Val(store'), "initiative", EmptyInitiative) = Val(bc'[w].msg.data)
        /\ (bc[w].msg.type = "initiative_state" /\ EndsFrame(w))
              => /\ pc'[w] = "recv"
                 /\ InRoom(active_connections', bc[w].cid) \subseteq ReachedAtEnd(w)
      ]_vars

\* C6: in a broadcast where any subset of the sends fails, every non-failing,
\* non-excluded connection of the room is sent the message and exactly the
\* failing connections are removed from both maps; a failing single-target
\* send removes that one connection.
C6_FailedSendsPrunedOthersReached ==
    [][\A w \in Conns :
        /\ (EndsFrame(w) /\ FailedAtEnd(w) # {})
              => /\ pc'[w] \in {"recv", "left"}
                 /\ InRoom(active_connections', bc[w].cid) \ {bc[w].exclude}
                        \subseteq ReachedAtEnd(w)
                 /\ \A x \in FailedAtEnd(w) :
                        x \notin DOMAIN connection_info' /\ x \notin AllRooms(active_connections')
                 /\ DOMAIN connection_info \ DOMAIN connection_info' \subseteq FailedAtEnd(w)
        /\ (pc[w] = "personal" /\ pc'[w] # "personal" /\ ~alive[w])
              => w \notin DOMAIN connection_info' /\ w \notin AllRooms(active_connections')
      ]_vars

InLoop(w) ==
    \/ pc[w] \in {"recv", "personal"}
    \/ pc[w] = "bcast" /\ bc[w].origin = "loop"
LoopEnds(w) ==
    /\ InLoop(w)
    /\ \/ pc'[w] \in {"faulted", "left", "crashed"}
       \/ pc'[w] = "bcast" /\ bc'[w].origin = "left"

\* C7: whenever a session loop ends, by disconnect or by an unhandled fault, the
\* connection is removed from the registry and a user_disconnected notice is
\* broadcast to the connections remaining in the room.
C7_LoopEndNotifiesRoom ==
    [][\A w \in Conns :
        LoopEnds(w)
          => /\ w \notin DOMAIN connection_info'
             /\ w \notin AllRooms(active_connections')
             /\ InRoom(active_connections', CampaignOf(w)) # {}
                  => /\ bc'[w].msg.type = "user_disconnected"
                     /\ bc'[w].msg.src = w
      ]_vars

\* C8: a map_update from a non-DM reaches no other connection and yields an
\* error to the sender only, the sender staying connected; a map_update from a
\* DM is delivered to every other connection of the room and not to the sender.
C8_MapUpdateGate ==
    [][\A w \in Conns :
        /\ (pc[w] = "recv" /\ data'[w].type = "map_update" /\ UserOf(w) # 1)
              => /\ pc'[w] = "personal"
                 /\ pending'[w].type = "error" /\ pending'[w].src = w
                 /\ bc'[w] = NoBc
        /\ bc'[w].msg.type = "map_update"
              => /\ UserOf(bc'[w].msg.src) = 1
                 /\ bc'[w].msg.src \notin bc'[w].reached \cup {bc'[w].cur}
        /\ (bc[w].msg.type = "map_update" /\ EndsFrame(w))
              => /\ pc'[w] = "recv"
                 /\ InRoom(active_connections', bc[w].cid) \ {bc[w].msg.src}
                        \subseteq ReachedAtEnd(w)
      ]_vars

\* the three kinds of frame C9 is about, as the property lists them
Rejected(req) ==
    \/ req.type = "dice_roll" /\ req.dice_type \notin {4, 6, 8, 10, 12, 20, 100}
    \/ req.type \notin {"none", "dice_roll", "chat_message", "initiative_update",
                        "map_update"}
    \/ /\ req.type = "initiative_update"
       /\ req.action \notin
            {"start_combat", "add_combatant", "remove_combatant", "roll_initiative",
             "set_initiative", "next_turn", "previous_turn", "end_combat", "roll_all",
             "use_action", "use_bonus_action", "use_reaction", "use_movement",
             "reset_action_economy", "update_npc", "add_condition",
             "remove_condition", "clear_conditions"}

\* no broadcast starts and no broadcast in flight delivers anything in the step
NothingBroadcast ==
    \A x \in Conns : bc'[x].msg = bc[x].msg /\ bc'[x].reached = bc[x].reached

\* C9: a dice_roll with a dice_type outside {4,6,8,10,12,20,100}, a frame of an
\* unrecognized type and an initiative_update with an unrecognized action each
\* yield one error addressed to the sender only: no broadcast starts, the
\* persisted state and the registry are unchanged, and after the one send the
\* sender (still registered when its socket is open) is back at receive.
C9_RejectedFrameErrorsToSenderOnly ==
    [][\A w \in Conns :
        /\ (pc[w] = "recv" /\ data'[w] # data[w])
              => /\ Rejected(data'[w])
                    => /\ pc'[w] = "personal"
                       /\ pending'[w].type = "error" /\ pending'[w].src = w
                       /\ NothingBroadcast /\ store' = store
                       /\ active_connections' = active_connections
                       /\ connection_info' = connection_info
                 /\ pc'[w] = "personal" /\ pending'[w].text # "Campaign not found"
                    => Rejected(data'[w])
        /\ (pc[w] = "personal" /\ pc'[w] # "personal")
              => /\ pc'[w] = "recv" /\ pending'[w] = NoMsg
                 /\ NothingBroadcast /\ store' = store
                 /\ alive[w] => /\ active_connections' = active_connections
                                /\ connection_info' = connection_info
      ]_vars

C9_Witness ==
    \E w \in Conns :
        /\ pc[w] = "personal" /\ Rejected(data[w]) /\ pending[w].type = "error"
        /\ alive[w] /\ w \in DOMAIN connection_info
        /\ ~IsNone(store) /\ "initiative" \in DOMAIN Val(store)
        /\ Val(store).initiative.active

\* C10: in every CombatState reachable from the inactive empty state by combat
\* actions, current_turn_index is a valid index into combatants when the list
\* is non-empty and 0 when it is empty.
C10_TurnIndexValid ==
    IF initiative.combatants = <<>> THEN initiative.current_turn_index = 0
    ELSE /\ 0 <= initiative.current_turn_index
         /\ initiative.current_turn_index < Len(initiative.combatants)

\* the turn wrapped into round 2 and then advanced to the last position
C10_Witness ==
    /\ Len(initiative.combatants) = 2
    /\ initiative.current_turn_index = 1
    /\ initiative.round = 2

\* the step is a start_combat or an end_combat: the end of one combat
Restarts ==
    \/ initiative' = StartCombat(initiative, AllCharacters)
    \/ initiative' = EndCombat(initiative)

\* C11 as stated: round is 1 when combat starts and, within one combat, no
\* action decreases it.
C11_RoundNeverDecreases ==
    /\ [](StartCombat(initiative, AllCharacters).round = 1)
    /\ [][Restarts \/ initiative'.round >= initiative.round]_vars

\* C11 as amended: round is 1 when combat starts and is never below 1; within
\* one combat the only action that decreases it is previous_turn, which takes
\* exactly 1 off when it wraps from the first combatant to the last.
C11_RoundDecreasesOnlyByPreviousTurn ==
    /\ [](StartCombat(initiative, AllCharacters).round = 1 /\ initiative.round >= 1)
    /\ [][(initiative'.round < initiative.round /\ ~Restarts)
            => /\ initiative' = PreviousTurn(initiative)
               /\ initiative.current_turn_index = 0
               /\ initiative'.current_turn_index = Len(initiative.combatants) - 1
               /\ initiative'.round = initiative.round - 1
         ]_vars

\* a second round has begun with the first of several combatants current: the
\* state in which previous_turn goes back into the round before
C11_Witness ==
    /\ initiative.active
    /\ initiative.round = 2
    /\ initiative.current_turn_index = 0
    /\ Len(initiative.combatants) >= 2
    /\ PreviousTurn(initiative).round = 1

\* C12: in every reachable CombatState every combatant has movement <=
\* max_movement, whatever speed add_combatant and whatever amount use_movement
\* were given.
C12_MovementWithinMax ==
    \A i \in 1..Len(initiative.combatants) :
        initiative.combatants[i].action_economy.movement
            <= initiative.combatants[i].action_economy.max_movement

\* the conditions of the combatant with the id, none when no combatant has it
ConditionsOf(init, id) ==
    IF \E i \in 1..Len(init.combatants) : init.combatants[i].id = id
    THEN init.combatants[FirstWithId(init.combatants, id)].conditions
    ELSE <<>>

\* C13: no combatant holds two conditions of the same name, and add_condition
\* with a name the combatant already holds leaves its condition list as it was
\* (the entry it holds keeps its duration and source).
C13_ConditionNamesUnique ==
    /\ \A k \in 1..Len(initiative.combatants) :
          \A i, j \in 1..Len(initiative.combatants[k].conditions) :
              initiative.combatants[k].conditions[i].name
                  = initiative.combatants[k].conditions[j].name => i = j
    /\ \A id \in IdsOf(initiative) :
          \A c \in {[name |-> "prone", duration |-> Some(2), duration_type |-> "rounds",
                     source |-> "shove"],
                    [name |-> "prone"], [name |-> "blessed", source |-> "cleric"]} :
              (\E i \in 1..Len(ConditionsOf(initiative, id)) :
                    ConditionsOf(initiative, id)[i].name = c.name)
                => ConditionsOf(AddCondition(initiative, OnTarget(id, c)), id)
                     = ConditionsOf(initiative, id)

\* a combatant holds a timed "prone" that has ticked once and a "blessed"; the
\* add of an untimed "prone" would differ from the entry held
C13_Witness ==
    \E id \in IdsOf(initiative) :
        /\ Len(ConditionsOf(initiative, id)) = 2
        /\ \E i \in 1..2 :
              /\ ConditionsOf(initiative, id)[i].name = "prone"
              /\ ConditionsOf(initiative, id)[i].duration = Some(1)
              /\ ConditionsOf(initiative, id)[i].source = "shove"

MaxTurnsAhead == 4

\* the state after m next_turn calls in a row
RECURSIVE NextTurns(_, _)
NextTurns(init, m) == IF m = 0 THEN init ELSE NextTurns(NextTurn(init), m - 1)

\* how many of m next_turn calls in a row make the combatant at position p
\* the current one
Visits(init, p, m) ==
    Cardinality({j \in 1..m :
        (init.current_turn_index + j) % Len(init.combatants) = p - 1})

Holds(conds, c) == \E j \in 1..Len(conds) : conds[j] = c
HoldsName(conds, name) == \E j \in 1..Len(conds) : conds[j].name = name

\* C17: a rounds condition of duration d >= 1 is still held, with duration
\* d - k, after next_turn has made its combatant current k < d times, and is
\* gone after the d-th time; next_turn calls that make another combatant
\* current leave it as it is; an indefinite condition is neither removed nor
\* altered by any number of next_turn calls.
C17_ConditionDurations ==
    \A m \in 0..MaxTurnsAhead :
      \A p \in 1..Len(initiative.combatants) :
        LET before == initiative.combatants[p].conditions
            after == NextTurns(initiative, m).combatants[p].conditions
            k == Visits(initiative, p, m)
        IN  \A i \in 1..Len(before) :
              LET c == before[i]
              IN  IF c.duration_type = "rounds" /\ c.duration # <<>>
                  THEN IF k < c.duration[1]
                       THEN Holds(after, [c EXCEPT !.duration = <<c.duration[1] - k>>])
                       ELSE ~HoldsName(after, c.name)
                  ELSE Holds(after, c)

\* among several combatants, one that is not the current one holds a "prone"
\* that has ticked down to 1 and an indefinite "blessed"
C17_Witness ==
    \E p \in 1..Len(initiative.combatants) :
        /\ Len(initiative.combatants) >= 2
        /\ p # initiative.current_turn_index + 1
        /\ Holds(initiative.combatants[p].conditions,
                 [name |-> "prone", duration |-> <<1>>, duration_type |-> "rounds",
                  source |-> "shove"])
        /\ Holds(initiative.combatants[p].conditions,
                 [name |-> "blessed", duration |-> <<>>, duration_type |-> "indefinite",
                  source |-> "cleric"])

\* C14: in a state with N >= 1 combatants, from any current_turn_index, N
\* next_turn calls in a row add exactly 1 to round and bring current_turn_index
\* back to where it was.
C14_FullCycle ==
    Len(initiative.combatants) >= 1
      => LET after == NextTurns(initiative, Len(initiative.combatants))
         IN  /\ after.round = initiative.round + 1
             /\ after.current_turn_index = initiative.current_turn_index

\* the cycle starts in the middle of the first round, at the last of two
C14_Witness ==
    /\ initiative.active
    /\ Len(initiative.combatants) = 2
    /\ initiative.current_turn_index = 1
    /\ initiative.round = 1
    /\ NextTurns(initiative, 2).round = 2

\* the state is the result of a branch that re-sorts
Resorted ==
    /\ accepted # <<>>
    /\ \/ accepted[1].action \in {"roll_initiative", "roll_all", "set_initiative"}
       \/ /\ accepted[1].action = "add_combatant"
          /\ "initiative" \in DOMAIN accepted[1].data

NamesOf(init) == [i \in 1..Len(init.combatants) |-> init.combatants[i].name]

\* C15: after a re-sort, of two combatants of equal initiative the one with
\* the higher dex_mod is first, and of two with equal initiative and equal
\* dex_mod the one whose name is alphabetically earlier is first; (15, 2, "B"),
\* (15, 2, "A"), (null, 5, "Z") come out as "A", "B", "Z".
C15_TieBreaking ==
    Resorted =>
      /\ \A i, j \in 1..Len(initiative.combatants) :
            LET a == initiative.combatants[i]
                b == initiative.combatants[j]
            IN  (i < j /\ a.initiative # <<>> /\ a.initiative = b.initiative)
                  => /\ a.dex_mod >= b.dex_mod
                     /\ a.dex_mod = b.dex_mod => NameOrd(a.name) <= NameOrd(b.name)
      /\ {<<c.name, c.initiative, c.dex_mod>> :
              c \in {initiative.combatants[i] : i \in 1..Len(initiative.combatants)}}
            = {<<"B", <<15>>, 2>>, <<"A", <<15>>, 2>>, <<"Z", <<>>, 5>>}
           => NamesOf(initiative) \in {<<"A", "B", "Z">>}

\* C16: after a re-sort every combatant with an initiative precedes every
\* combatant without one, and the initiatives appear in non-increasing order.
C16_SortedByInitiative ==
    Resorted =>
      \A i, j \in 1..Len(initiative.combatants) :
          LET a == initiative.combatants[i]
              b == initiative.combatants[j]
          IN  i < j => /\ ~(a.initiative = <<>> /\ b.initiative # <<>>)
                       /\ (a.initiative # <<>> /\ b.initiative # <<>>)
                            => a.initiative[1] >= b.initiative[1]

\* the payloads of start_combat: none, and a character_ids hint naming a subset
StartPayloads == {NoData, [character_ids |-> <<1>>]}

\* C18: start_combat, from any prior state and with any payload, yields an
\* active combat at round 1, turn index 0, whose combatants are exactly one
\* player combatant per character of the lookup, in no condition, with
\* initiative null, action, bonus action and reaction available and
\* movement = max_movement = the character's speed.
C18_StartCombatSeedsAllCharacters ==
    \A d \in StartPayloads :
        LET s == ApplyAction(initiative, "start_combat", d, AllCharacters, NoDraw)
        IN  /\ s.active /\ s.round = 1 /\ s.current_turn_index = 0
            /\ Len(s.combatants) = Len(AllCharacters)
            /\ \A i \in 1..Len(AllCharacters) :
                  LET c == s.combatants[i]
                      char == AllCharacters[i]
                  IN  /\ c.type = "pc" /\ c.character_id = char.id
                      /\ c.id = <<"char", char.id>> /\ c.name = char.name
                      /\ c.initiative = None /\ c.conditions = <<>>
                      /\ c.action_economy.action /\ c.action_economy.bonus_action
                      /\ c.action_economy.reaction
                      /\ c.action_economy.movement = char.speed
                      /\ c.action_economy.max_movement = char.speed

\* C19: an add_pc frame received for an existing campaign is answered with a
\* broadcast of the updated initiative_state, not with an error, and the state
\* it carries holds at most one combatant per character id.
C19_AddPcAnswersWithState ==
    [][\A w \in Conns :
        (/\ pc[w] = "recv" /\ data'[w] # data[w]
         /\ data'[w].type = "initiative_update" /\ data'[w].action = "add_pc"
         /\ ~IsNone(store))
           => /\ pending'[w].type # "error"
              /\ bc'[w].msg.type = "initiative_state"
              /\ LET cs == Val(bc'[w].msg.data).combatants
                 IN  \A i, j \in 1..Len(cs) :
                        (cs[i].type = "pc" /\ cs[j].type = "pc"
                         /\ cs[i].character_id = cs[j].character_id) => i = j
      ]_vars

\* the two registry maps as one value
Maps(ac, ci) == [ac |-> ac, ci |-> ci]

\* C20: disconnect is idempotent. In every registry state and for every
\* connection c: after disconnect(c) c is in neither map, and a second
\* disconnect(c) returns the maps of the first; if c is not registered (never
\* was, or was removed already) disconnect(c) returns both maps as they were.
\* The endpoint's disconnect of a connection that a broadcast has already
\* removed leaves both maps as they were.
C20_DisconnectIdempotent ==
    /\ [](\A w \in Conns :
            LET once == Disconnected(active_connections, connection_info, w)
                twice == Disconnected(once.ac, once.ci, w)
            IN  /\ w \notin DOMAIN once.ci
                /\ \A cid \in DOMAIN once.ac : w \notin once.ac[cid]
                /\ twice = once
                /\ w \notin DOMAIN connection_info
                      => once = Maps(active_connections, connection_info))
    /\ [][\A w \in Conns :
            (/\ pc[w] = "recv" /\ ~alive[w] /\ pc'[w] # "recv"
             /\ w \notin DOMAIN connection_info)
               => Maps(active_connections', connection_info')
                    = Maps(active_connections, connection_info)
       ]_vars

\* a closed connection that a broadcast has already removed stands before its
\* endpoint's own disconnect, while other connections are registered
C20_Witness ==
    \E w \in Conns :
        /\ pc[w] = "recv" /\ ~alive[w]
        /\ w \notin DOMAIN connection_info
        /\ DOMAIN connection_info # {}

\* C21: the registry never holds a room entry with an empty connection set: a
\* campaign id is a key of active_connections only while some connection is
\* registered under it.
C21_NoEmptyRoom ==
    \A cid \in DOMAIN active_connections :
        /\ active_connections[cid] # {}
        /\ \E w \in active_connections[cid] :
              /\ w \in DOMAIN connection_info
              /\ connection_info[w].campaign_id = cid

\* the room has been emptied by the pruning of a connection whose send failed,
\* its endpoint not having disconnected it yet
C21_Witness ==
    /\ active_connections = <<>>
    /\ \E w \in Conns :
          /\ pc[w] = "recv" /\ ~alive[w]
          /\ w \notin DOMAIN connection_info
          /\ sent > 0

\* the connections registered under a campaign, by connection_info
RegisteredIn(ci, cid) == {w \in DOMAIN ci : ci[w].campaign_id = cid}

\* the step admits w: its endpoint passes authentication and registers it
Admits(w) == pc[w] = "idle" /\ pc'[w] \notin {"idle", "refused"}

\* C22: get_campaign_connections(s) is the number of distinct connections
\* admitted to s and not since removed by disconnect or by pruning: it counts
\* exactly the connections connection_info holds for s, each of them admitted
\* and not disconnected by its endpoint; an admission raises it by exactly one,
\* whoever else is in the room; no other step raises it; the disconnect of a
\* connection that is not registered leaves it as it was.
C22_CountMatchesRegistered ==
    /\ [](\A cid \in {1, 2} :
            /\ get_campaign_connections(active_connections, cid)
                  = Cardinality(RegisteredIn(connection_info, cid))
            /\ InRoom(active_connections, cid) = RegisteredIn(connection_info, cid)
            /\ \A w \in RegisteredIn(connection_info, cid) :
                  pc[w] \in {"recv", "bcast", "personal", "crashed"}
                  /\ (pc[w] = "bcast" => bc[w].origin # "left"))
    /\ [][\A cid \in {1, 2} :
            LET n0 == get_campaign_connections(active_connections, cid)
                n1 == get_campaign_connections(active_connections', cid)
            IN  /\ \A w \in Conns :
                      (Admits(w) /\ CampaignOf(w) = cid)
                         => /\ n1 = n0 + 1
                            /\ w \notin InRoom(active_connections, cid)
                /\ (\A w \in Conns : ~Admits(w)) => n1 <= n0
                /\ \A w \in Conns :
                      (/\ pc[w] = "recv" /\ ~alive[w] /\ pc'[w] # "recv"
                       /\ w \notin DOMAIN connection_info) => n1 = n0
       ]_vars

\* two connections were admitted to the room, one was pruned after a failed
\* delivery and has not been disconnected by its endpoint yet: the count is 1
C22_Witness ==
    /\ get_campaign_connections(active_connections, 1) = 1
    /\ \E w \in Conns :
          /\ pc[w] = "recv" /\ ~alive[w]
          /\ w \notin DOMAIN connection_info

\* C23: connect registers the connection under its campaign and sends the
\* user_connected event to each connection already registered there, and not
\* to the admitted connection itself: when the broadcast of connect is over,
\* every connection admitted earlier that is still registered and open has
\* been sent the event.
C23_ConnectNotifiesRegistered ==
    [][\A w \in Members :
        /\ Admits(w)
              => /\ w \in InRoom(active_connections', CampaignOf(w))
                 /\ w \in DOMAIN connection_info'
        /\ (bc[w].origin = "connect" /\ EndsFrame(w))
              => /\ bc[w].msg.type = "user_connected"
                 /\ w \notin ReachedAtEnd(w)
                 /\ \A x \in Members :
                       (/\ Earlier(x, w) /\ alive[x]
                        /\ x \in InRoom(active_connections', bc[w].cid))
                          => x \in ReachedAtEnd(w)
      ]_vars

\* C24: a connection attempt whose credential does not resolve to an active
\* user (w4) is closed before admission: the connection is never in either
\* registry map, its endpoint never reaches the receive loop and never handles
\* a frame, and no broadcast or personal message is ever made on its behalf.
C24_RefusedBeforeAdmission ==
    /\ "w4" \notin DOMAIN connection_info
    /\ "w4" \notin AllRooms(active_connections)
    /\ pc["w4"] \in {"idle", "refused"}
    /\ data["w4"] = NoReq /\ pending["w4"] = NoMsg /\ bc["w4"] = NoBc
    /\ \A x \in Conns :
          /\ bc[x].msg.src # "w4" /\ pending[x].src # "w4"
          /\ "w4" \notin bc[x].todo \cup bc[x].seen \cup bc[x].reached \cup bc[x].failed
          /\ bc[x].cur # "w4"

\* the attempt was refused while another connection is registered and frames
\* have been handled for it
C24_Witness ==
    /\ pc["w4"] = "refused" /\ ~alive["w4"]
    /\ DOMAIN connection_info # {}
    /\ sent > 0

\* C25: the result of a dice_roll.  With dice_type 20, num_dice 1 and advantage
\* "advantage" or "disadvantage", all_rolls holds two values of 1..20, rolls the
\* higher of them for advantage and the lower for disadvantage, and total is
\* rolls[0] + modifier, unclamped.  For every other roll all_rolls is null,
\* rolls holds num_dice values of 1..dice_type and total is their sum plus the
\* modifier.
C25_DiceRollResult ==
    \A w \in Conns :
        bc[w].msg.type = "dice_roll_result" =>
            LET f == data[w]
                r == Val(bc[w].msg.data)
                n == IF "num_dice" \in DOMAIN f.data THEN f.data.num_dice ELSE 1
                m == IF "modifier" \in DOMAIN f.data THEN f.data.modifier ELSE 0
                adv == IF "advantage" \in DOMAIN f.data THEN f.data.advantage ELSE "null"
            IN  IF f.dice_type = 20 /\ n = 1 /\ adv \in {"advantage", "disadvantage"}
                THEN /\ r.all_rolls # <<>>
                     /\ Len(r.all_rolls[1]) = 2
                     /\ \A i \in 1..2 : r.all_rolls[1][i] \in 1..20
                     /\ Len(r.rolls) = 1
                     /\ LET r1 == r.all_rolls[1][1]
                            r2 == r.all_rolls[1][2]
                        IN  /\ adv = "advantage"
                                 => r.rolls[1] = (IF r1 >= r2 THEN r1 ELSE r2)
                            /\ adv = "disadvantage"
                                 => r.rolls[1] = (IF r1 <= r2 THEN r1 ELSE r2)
                     /\ r.total = r.rolls[1] + m
                ELSE /\ r.all_rolls = <<>>
                     /\ Len(r.rolls) = n
                     /\ \A i \in 1..Len(r.rolls) : r.rolls[i] \in 1..f.dice_type
                     /\ r.total = SumSeq(r.rolls) + m

\* a disadvantage roll of two different values whose total is negative
C25_Witness ==
    \E w \in Conns :
        /\ bc[w].msg.type = "dice_roll_result"
        /\ data[w].dice_type = 20 /\ data[w].data # NoData
        /\ data[w].data.advantage = "disadvantage" /\ data[w].data.num_dice = 1
        /\ Val(bc[w].msg.data).all_rolls[1][1] < Val(bc[w].msg.data).all_rolls[1][2]
        /\ Val(bc[w].msg.data).rolls[1] = Val(bc[w].msg.data).all_rolls[1][1]
        /\ Val(bc[w].msg.data).total < 0

\* C26: the save of an initiative_update changes only the "initiative" key of
\* the campaign's settings: every other key is there after the save with the
\* value it had before, and no key other than "initiative" appears.
C26_SaveKeepsSiblingKeys ==
    [][(~IsNone(store) /\ store' # store)
         => /\ ~IsNone(store')
            /\ "initiative" \in DOMAIN Val(store')
            /\ DOMAIN Val(store') = DOMAIN Val(store) \cup {"initiative"}
            /\ \A k \in DOMAIN Val(store) \ {"initiative"} :
                  Val(store')[k] = Val(store)[k]
      ]_vars

\* a second initiative_update has been saved over settings that hold another key
C26_Witness ==
    /\ Len(accepted) >= 2
    /\ ~IsNone(store)
    /\ DOMAIN Val(store) = {"theme", "initiative"}
    /\ Val(store).initiative.combatants # <<>>

\* the endpoint of w comes to wait for the client's first frame: from the
\* admission itself or from the end of the user_connected broadcast
FirstReceive(w) ==
    /\ pc'[w] = "recv"
    /\ \/ pc[w] = "idle"
       \/ pc[w] = "bcast" /\ bc[w].origin = "connect"

\* C27: a client that connects while the persisted combat state is active is
\* sent an initiative_state message carrying that state before anything else
\* and without having sent a frame: its endpoint does not pass from admission
\* to waiting for the client's first frame.
C27_StateSentOnConnect ==
    [][\A w \in Conns :
        (/\ ~IsNone(store) /\ "initiative" \in DOMAIN Val(store)
         /\ Val(store).initiative.active)
           => ~FirstReceive(w)
      ]_vars

\* the step decodes a frame of w and starts to handle it
TakesFrame(w) == sent' = sent + 1 /\ data'[w] # NoReq /\ data'[w] # data[w]

\* C28: a connection's frames are handled one at a time in arrival order: a
\* frame is decoded only when the endpoint waits at receive with nothing of an
\* earlier frame left, neither a broadcast in progress nor a personal message
\* being sent, its save already made; and while a broadcast or a personal
\* message of a frame is in progress the endpoint is in that send.
C28_OneFrameAtATime ==
    /\ [](\A w \in Conns :
            (bc[w].origin = "loop" \/ pending[w] # NoMsg \/ data[w] # NoReq)
               => pc[w] \in {"bcast", "personal"})
    /\ [][\A w \in Conns :
            TakesFrame(w)
               => /\ pc[w] = "recv"
                  /\ bc[w] = NoBc /\ pending[w] = NoMsg /\ data[w] = NoReq
                  /\ Len(accepted') <= Len(accepted) + 1
                  /\ SubSeq(accepted', 1, Len(accepted)) = accepted
       ]_vars

\* the second initiative_update of w1 is being broadcast, its first one saved
\* and delivered, no other connection having sent anything
C28_Witness ==
    /\ pc["w2"] = "idle"
    /\ Len(accepted) = 2
    /\ pc["w1"] = "bcast" /\ bc["w1"].msg.type = "initiative_state"

\* the amounts of the use_movement payloads C29 is checked for
C29Payloads(id) ==
    {[combatant_id |-> id]} \cup
    {[combatant_id |-> id, amount |-> a] : a \in {0, 5, 30, 50, 0 - 10}}

\* C29: use_movement sets the movement of the target (the first combatant with
\* the id) to max(0, movement - amount), amount being 5 when the payload has
\* none, and changes nothing else: every other combatant, every other field of
\* the target, round, turn index and active stay as they were.  An amount
\* larger than the remaining movement yields 0; the result is never negative.
C29_UseMovementFloorsAtZero ==
    \A id \in IdsOf(initiative) \cup {MissingId} :
        \A d \in C29Payloads(id) :
            LET new == ApplyAction(initiative, "use_movement", d, AllCharacters, NoDraw)
                cs == initiative.combatants
                hits == {i \in 1..Len(cs) : cs[i].id = id}
                amount == IF "amount" \in DOMAIN d THEN d.amount ELSE 5
            IN  IF hits = {} THEN new = initiative
                ELSE LET k == CHOOSE i \in hits : \A j \in hits : i <= j
                         before == cs[k].action_economy.movement
                         after == new.combatants[k].action_economy.movement
                     IN  /\ after = (IF before - amount > 0 THEN before - amount ELSE 0)
                         /\ after >= 0
                         /\ amount > before => after = 0
                         /\ new = [initiative EXCEPT
                                     !.combatants[k].action_economy.movement = after]

\* a combatant with movement left, less than 50, that an earlier use_movement has
\* already lowered
C29_Witness ==
    \E i \in 1..Len(initiative.combatants) :
        LET e == initiative.combatants[i].action_economy
        IN  e.movement > 0 /\ e.movement < e.max_movement /\ e.movement < 50

\* C30: next_turn on a non-empty list gives the new current combatant its
\* action, bonus action and reaction back and sets its movement to
\* max_movement; every other combatant keeps its action economy and its
\* conditions, every combatant keeps its initiative, and the list keeps its
\* order.
C30_NextTurnResetsCurrentOnly ==
    initiative.combatants # <<>> =>
        LET new == ApplyAction(initiative, "next_turn", NoData, AllCharacters, NoDraw)
            old == initiative.combatants
            cur == new.current_turn_index + 1
        IN  /\ Len(new.combatants) = Len(old)
            /\ cur \in 1..Len(old)
            /\ new.combatants[cur].action_economy.action
            /\ new.combatants[cur].action_economy.bonus_action
            /\ new.combatants[cur].action_economy.reaction
            /\ new.combatants[cur].action_economy.movement
                  = old[cur].action_economy.max_movement
            /\ new.combatants[cur].action_economy.max_movement
                  = old[cur].action_economy.max_movement
            /\ \A i \in 1..Len(old) :
                  /\ new.combatants[i].id = old[i].id
                  /\ new.combatants[i].name = old[i].name
                  /\ new.combatants[i].initiative = old[i].initiative
                  /\ i # cur => /\ new.combatants[i].action_economy = old[i].action_economy
                                /\ new.combatants[i].conditions = old[i].conditions
                                /\ new.combatants[i] = old[i]

\* two combatants with an initiative; the one whose turn comes next has spent
\* its action and its movement, the current one its reaction, and holds a
\* condition
C30_Witness ==
    /\ Len(initiative.combatants) = 2
    /\ LET nxt == ((initiative.current_turn_index + 1) % 2) + 1
           cur == initiative.current_turn_index + 1
       IN  /\ ~initiative.combatants[nxt].action_economy.action
           /\ initiative.combatants[nxt].action_economy.movement
                 < initiative.combatants[nxt].action_economy.max_movement
           /\ initiative.combatants[nxt].initiative # <<>>

\* C31: previous_turn on a non-empty list moves the turn pointer one place
\* back; from the first combatant it wraps to the last one and the round
\* becomes max(1, round - 1). No combatant is changed (action economy,
\* conditions, initiative), and the round is at least 1 afterwards.
C31_PreviousTurnNavigatesOnly ==
    initiative.combatants # <<>> =>
        LET new == ApplyAction(initiative, "previous_turn", NoData, AllCharacters, NoDraw)
            n == Len(initiative.combatants)
        IN  /\ new.combatants = initiative.combatants
            /\ new.active = initiative.active
            /\ new.round >= 1
            /\ IF initiative.current_turn_index = 0
               THEN /\ new.current_turn_index = n - 1
                    /\ new.round = Max(1, initiative.round - 1)
               ELSE /\ new.current_turn_index = initiative.current_turn_index - 1
                    /\ new.round = initiative.round

\* the pointer is on the first of two combatants in a later round, and the
\* last combatant has spent its action and holds a condition
C31_Witness ==
    /\ Len(initiative.combatants) = 2
    /\ initiative.current_turn_index = 0
    /\ initiative.round >= 2
    /\ ~initiative.combatants[2].action_economy.action
    /\ initiative.combatants[2].conditions # <<>>

\* C32: remove_combatant deletes every combatant with the given id and keeps
\* the others in their order; the pointer becomes 0 exactly when its old
\* value is at or past the new length of the list, and otherwise keeps its
\* numeric value. The round is untouched.
C32_RemoveCombatantClampsPointer ==
    \A id \in TargetIds(initiative) :
        LET new == ApplyAction(initiative, "remove_combatant", Target(id),
                               AllCharacters, NoDraw)
            old == initiative.combatants
            kept(c) == c.id # id
        IN  /\ \A i \in 1..Len(new.combatants) : new.combatants[i].id # id
            /\ new.combatants = SelectSeq(old, kept)
            /\ new.round = initiative.round
            /\ new.current_turn_index =
                  IF initiative.current_turn_index >= Len(new.combatants) THEN 0
                  ELSE initiative.current_turn_index

\* three combatants with the pointer on the second: removing the first or the
\* third leaves the pointer at 1
C32_Witness ==
    /\ Len(initiative.combatants) = 3
    /\ initiative.current_turn_index = 1

\* the combatant of a list that carries the id (ids are unique in the lists
\* the actions build)
WithId(s, id) == s[CHOOSE i \in 1..Len(s) : s[i].id = id]
\* the two ends of random.randint(1, 20)
RollEnds == {1, 20}

\* C33: roll_initiative on a combatant of the list stores the raw roll r
\* (1..20) and sets initiative = r + dex_mod; roll_all does the same for each
\* combatant whose initiative is null, leaves the combatants that have an
\* initiative as they are and leaves no null initiative in the list; both
\* end with the pointer at 0.
C33_RollsAddDexMod ==
    LET old == initiative.combatants
    IN  /\ \A id \in IdsOf(initiative), r \in RollEnds :
              LET new == ApplyAction(initiative, "roll_initiative", Target(id),
                                     AllCharacters, [roll |-> r])
              IN  /\ new.current_turn_index = 0
                  /\ Len(new.combatants) = Len(old)
                  /\ WithId(new.combatants, id).roll = Some(r)
                  /\ WithId(new.combatants, id).initiative
                        = Some(r + WithId(old, id).dex_mod)
        /\ \A f \in [1..Len(old) -> RollEnds] :
              LET new == ApplyAction(initiative, "roll_all", NoData,
                                     AllCharacters, [rolls |-> f])
              IN  /\ new.current_turn_index = 0
                  /\ Len(new.combatants) = Len(old)
                  /\ \A i \in 1..Len(old) : ~IsNone(new.combatants[i].initiative)
                  /\ \A i \in 1..Len(old) :
                        IF IsNone(old[i].initiative)
                        THEN /\ WithId(new.combatants, old[i].id).roll = Some(f[i])
                             /\ WithId(new.combatants, old[i].id).initiative
                                   = Some(f[i] + old[i].dex_mod)
                        ELSE WithId(new.combatants, old[i].id) = old[i]

\* the pointer is past the first combatant; one combatant with a dexterity
\* modifier has no initiative yet and another has one
C33_Witness ==
    /\ initiative.current_turn_index > 0
    /\ \E i, j \in 1..Len(initiative.combatants) :
          /\ IsNone(initiative.combatants[i].initiative)
          /\ initiative.combatants[i].dex_mod # 0
          /\ ~IsNone(initiative.combatants[j].initiative)

\* update_npc payloads: every choice of supplied fields, a current_hp below 0
\* and one above the NPC's max_hp
UpdateNpcPayloads(id) ==
    {[combatant_id |-> id]}
    \cup {[combatant_id |-> id, current_hp |-> h] : h \in {0 - 3, 25}}
    \cup {[combatant_id |-> id, max_hp |-> 5], [combatant_id |-> id, armor_class |-> 15]}
    \cup {[combatant_id |-> id, current_hp |-> h, max_hp |-> 5, armor_class |-> 15] :
              h \in {0 - 3, 25}}

\* C34: update_npc changes only the NPC combatant with the given id:
\* current_hp becomes max(0, current_hp) with no upper limit, max_hp and
\* armor_class become the given values, fields that are not supplied keep
\* their value; when the id belongs to a player combatant nothing changes.
C34_UpdateNpcOnlyNpc ==
    \A id \in TargetIds(initiative) : \A d \in UpdateNpcPayloads(id) :
        LET new == ApplyAction(initiative, "update_npc", d, AllCharacters, NoDraw)
            old == initiative.combatants
        IN  /\ new.current_turn_index = initiative.current_turn_index
            /\ new.round = initiative.round
            /\ new.active = initiative.active
            /\ Len(new.combatants) = Len(old)
            /\ \A i \in 1..Len(old) :
                  IF old[i].id = id /\ old[i].type = "npc"
                  THEN new.combatants[i] =
                          [old[i] EXCEPT
                              !.current_hp = IF "current_hp" \in DOMAIN d
                                             THEN Max(0, d.current_hp) ELSE @,
                              !.max_hp = IF "max_hp" \in DOMAIN d THEN d.max_hp ELSE @,
                              !.armor_class = IF "armor_class" \in DOMAIN d
                                              THEN d.armor_class ELSE @]
                  ELSE new.combatants[i] = old[i]

\* a player combatant followed by an NPC
C34_Witness ==
    /\ Len(initiative.combatants) = 2
    /\ initiative.combatants[1].type = "pc"
    /\ initiative.combatants[2].type = "npc"

\* the combatant-targeted requests, each naming a combatant that is not there
UntargetedRequests ==
    {[action |-> a, data |-> Target(MissingId), rnd |-> NoDraw] :
        a \in {"remove_combatant", "use_action", "use_bonus_action", "use_reaction",
               "reset_action_economy", "clear_conditions"}}
    \cup {[action |-> "roll_initiative", data |-> Target(MissingId), rnd |-> [roll |-> r]] :
              r \in RollEnds}
    \cup {[action |-> "set_initiative",
           data |-> [combatant_id |-> MissingId, value |-> Some(12)], rnd |-> NoDraw],
          [action |-> "use_movement",
           data |-> [combatant_id |-> MissingId, amount |-> 30], rnd |-> NoDraw],
          [action |-> "update_npc",
           data |-> [combatant_id |-> MissingId, current_hp |-> 0], rnd |-> NoDraw],
          [action |-> "add_condition",
           data |-> [combatant_id |-> MissingId, name |-> "prone"], rnd |-> NoDraw],
          [action |-> "remove_condition",
           data |-> [combatant_id |-> MissingId, name |-> "prone"], rnd |-> NoDraw]}

UntargetedResult(q) == ApplyAction(initiative, q.action, q.data, AllCharacters, q.rnd)

\* C35: a combatant-targeted action whose combatant_id matches no combatant
\* is a silent no-op: the resulting CombatState equals the input state, with
\* the same order of combatants, the same pointer and the same round.
C35_UnknownCombatantIsNoOp ==
    \A q \in UntargetedRequests : UntargetedResult(q) = initiative

\* C40: set_initiative and add_combatant never modify the pointer or the
\* round: after the re-sort the pointer keeps its numeric value, whoever now
\* stands at that position; roll_initiative and roll_all, in contrast, end
\* with the pointer at 0.
C40_SetAndAddKeepPointer ==
    /\ \A id \in TargetIds(initiative), v \in {Some(12), Some(0), Some(25)} :
          LET new == ApplyAction(initiative, "set_initiative",
                                 [combatant_id |-> id, value |-> v],
                                 AllCharacters, NoDraw)
          IN  /\ new.current_turn_index = initiative.current_turn_index
              /\ new.round = initiative.round
    /\ \A d \in NpcPayloads, n \in FreshNpc(initiative) :
          LET new == ApplyAction(initiative, "add_combatant", d,
                                 AllCharacters, [fresh |-> n])
          IN  /\ new.current_turn_index = initiative.current_turn_index
              /\ new.round = initiative.round
    /\ \A id \in TargetIds(initiative) :
          ApplyAction(initiative, "roll_initiative", Target(id), AllCharacters,
                      [roll |-> 10]).current_turn_index = 0
    /\ ApplyAction(initiative, "roll_all", NoData, AllCharacters,
                   [rolls |-> [i \in 1..Len(initiative.combatants) |-> 10]]
                  ).current_turn_index = 0

\* the pointer is on the second combatant in a later round, and the last
\* combatant would move to the front with an initiative of 25
C40_Witness ==
    /\ Len(initiative.combatants) >= 2
    /\ initiative.current_turn_index = 1
    /\ initiative.round >= 2
    /\ LET last == initiative.combatants[Len(initiative.combatants)]
       IN  ApplyAction(initiative, "set_initiative",
                       [combatant_id |-> last.id, value |-> Some(25)],
                       AllCharacters, NoDraw).combatants[1].id = last.id

\* every handler has finished and none of them saw a delivery fail or its
\* iteration of the room break: each connection is either not yet connected
\* or back in receive_json, registered, with a transport that delivers
Quiescent(pcs, ci, al, faults) ==
    \A x \in Conns :
        /\ pcs[x] \in {"idle", "recv"}
        /\ faults[x] = "none"
        /\ pcs[x] = "recv" => x \in DOMAIN ci /\ al[x]

\* C36: after any interleaving of initiative_update handlers on several
\* connections, once every handler has finished and no delivery has failed,
\* the last initiative_state each connection received is the persisted
\* CombatState. Stated on the delivery that ends the last handler: the
\* state it hands to its recipient is the one the campaign row holds.
C36_LastStateReceivedIsPersisted ==
    [][\A w \in Conns :
        ( /\ pc[w] = "bcast"
          /\ bc[w].msg.type = "initiative_state"
          /\ bc[w].cur # NoConn /\ alive[bc[w].cur]
          /\ EndsFrame(w)
          /\ Quiescent(pc', connection_info', alive', iterFault') )
            => bc[w].msg.data = Some(PersistedInitiative')
      ]_vars

Campaigns == {1, 2}

\* C37: with each connection admitted at most once, the two maps of the
\* registry agree: a connection is in the room set of campaign s exactly when
\* connection_info holds an entry for it with campaign_id s; so every
\* connection is in at most one room.
C37_RegistryMapsAgree ==
    /\ DOMAIN active_connections \subseteq Campaigns
    /\ \A w \in Conns, s \in Campaigns :
          w \in InRoom(active_connections, s)
             <=> (w \in DOMAIN connection_info /\ connection_info[w].campaign_id = s)
    /\ \A w \in Conns :
          Cardinality({s \in DOMAIN active_connections : w \in active_connections[s]}) <= 1

\* both rooms are populated and a connection of campaign 1 has already left
C37_Witness ==
    /\ "w1" \in InRoom(active_connections, 1)
    /\ "w5" \in InRoom(active_connections, 2)
    /\ pc["w2"] = "left"
    /\ "w2" \notin DOMAIN connection_info

\* the step in which the send of w's broadcast to x returns without raising
Delivers(w, x) ==
    /\ pc[w] = "bcast" /\ bc[w].cur = x /\ alive[x]
    /\ bc'[w].cur # x

C38_OnlyRegisteredAreServed ==
    [][/\ \A w \in Conns :
            TakesFrame(w)
               => /\ w \in DOMAIN connection_info
                  /\ w \in InRoom(active_connections, CampaignOf(w))
       /\ store' # store
             => \E w \in DOMAIN connection_info : pc[w] = "recv"
      ]_vars

====
